---- MODULE Spec2Model ----
(***************************************************************************)
(* Model of the Webflow order webhook (api/webflow/order.js) with its      *)
(* signature verifier, payload validation, idempotency cache, per-item     *)
(* fan-out and the backoff wrapper (lib/retry.js).                         *)
(*                                                                         *)
(* Header values, secrets and bodies that reach the HMAC are sequences of  *)
(* character codes, so that hex decoding and bit mutations are computed.   *)
(***************************************************************************)
EXTENDS Integers, Sequences, FiniteSets, TLC

(***************************************************************************)
(* Bounds of the model.                                                    *)
(***************************************************************************)
\* number of bytes of the digest kept by the model (SHA-256 has 32)
DigestBytes == 2

\* longest list of line items of an order
MaxItems == 2

\* most upstream failures one request meets
MaxFaults == 4

\* number of requests the sequential specification serves one after the other
MaxRuns == 2

\* distinct keys recorded beyond the capacity of the cache
MaxOverflow == 2

\* recordings of a key that was recorded before
MaxAgain == 1

\* largest maxRetries option withBackoff is called with
MaxRetriesOption == 3

\* a header or environment variable that is not set (undefined in JS)
Absent == <<-1>>

\* !x of JavaScript for header and environment strings
Falsy(s) == s = Absent \/ s = <<>>

(***************************************************************************)
(* Hex encoding and decoding, as Node's Buffer does them.                  *)
(***************************************************************************)
\* digest('hex') writes lower-case digits
HexChar(n) == IF n < 10 THEN 48 + n ELSE 87 + n

RECURSIVE HexEncode(_)
HexEncode(bytes) ==
    IF bytes = <<>> THEN <<>>
    ELSE <<HexChar(Head(bytes) \div 16), HexChar(Head(bytes) % 16)>> \o HexEncode(Tail(bytes))

\* value of one hex digit, -1 for any other character; both cases are digits
Unhex(c) ==
    IF c >= 48 /\ c <= 57 THEN c - 48
    ELSE IF c >= 97 /\ c <= 102 THEN c - 87
    ELSE IF c >= 65 /\ c <= 70 THEN c - 55
    ELSE -1

\* Buffer.from(s, 'hex'): decodes pairs of digits and stops, without an
\* error, at the first pair that is not two hex digits; a trailing single
\* character is dropped.
RECURSIVE HexDecode(_)
HexDecode(s) ==
    IF Len(s) < 2 THEN <<>>
    ELSE IF Unhex(s[1]) = -1 \/ Unhex(s[2]) = -1 THEN <<>>
    ELSE <<Unhex(s[1]) * 16 + Unhex(s[2])>> \o HexDecode(SubSeq(s, 3, Len(s)))

(***************************************************************************)
(* The keyed digest.  HMAC-SHA256 is replaced by a small keyed hash of the *)
(* same shape: a deterministic function of (secret, content) to a fixed    *)
(* number of bytes, written as lower-case hex.  It is a sum of the         *)
(* characters weighted by their position.                                  *)
(***************************************************************************)
Weight(i) == ((i * i * 7 + i * 13) % 251) + 1

\* the weighted sum of the characters lo..hi of s, kept to DigestBytes bytes
RECURSIVE HashRange(_, _, _)
HashRange(s, lo, hi) ==
    IF lo > hi THEN 0
    ELSE IF lo = hi THEN (s[lo] * Weight(lo)) % (256 ^ DigestBytes)
    ELSE LET mid == (lo + hi) \div 2
         IN  (HashRange(s, lo, mid) + HashRange(s, mid + 1, hi)) % (256 ^ DigestBytes)

HmacBytes(secret, content) ==
    LET keyed == secret \o content
        h == HashRange(keyed, 1, Len(keyed))
    IN  [i \in 1..DigestBytes |-> (h \div (256 ^ (DigestBytes - i))) % 256]

HmacHex(secret, content) == HexEncode(HmacBytes(secret, content))

\* crypto.timingSafeEqual: throws on buffers of different length
TimingSafeEqual(a, b) ==
    IF Len(a) # Len(b) THEN "throws" ELSE IF a = b THEN "true" ELSE "false"

\* verifyWebhookSignature(rawBody, signature, timestamp, secret)
verifyWebhookSignature(rawBody, signature, timestamp, secret) ==
    IF Falsy(signature) \/ Falsy(timestamp) \/ Falsy(secret) THEN FALSE
    ELSE LET content == timestamp \o <<58>> \o rawBody
             expectedSignature == HmacHex(secret, content)
             cmp == TimingSafeEqual(HexDecode(signature), HexDecode(expectedSignature))
         IN  cmp = "true"

\* createWebhookSignature of the test scripts: what the sender computes
createWebhookSignature(rawBody, secret, timestamp) ==
    HmacHex(secret, timestamp \o <<58>> \o rawBody)

\* c with bit b inverted
FlipBit(c, b) == IF (c \div (2 ^ b)) % 2 = 1 THEN c - 2 ^ b ELSE c + 2 ^ b

(***************************************************************************)
(* Strings.  Texts are TLA+ strings; the bytes that reach the digest and   *)
(* the signature header are sequences of character codes.                  *)
(***************************************************************************)
\* the printable ASCII characters, codes 32 to 126 (the grave accent, code 96,
\* cannot be written in a string here: a tab holds its place and no text uses it)
Ascii == " !\"#$%&'()*+,-./0123456789:;<=>?@ABCDEFGHIJKLMNOPQRSTUVWXYZ[\\]^_\tabcdefghijklmnopqrstuvwxyz{|}~"

CharTable == [i \in 1..Len(Ascii) |-> SubSeq(Ascii, i, i)]

CodeOf(ch) == 31 + (CHOOSE i \in 1..Len(Ascii) : CharTable[i] = ch)

Codes(s) == [i \in 1..Len(s) |-> CodeOf(SubSeq(s, i, i))]

\* String.prototype.includes
Includes(s, sub) ==
    \E i \in 1..(Len(s) - Len(sub) + 1) : SubSeq(s, i, i + Len(sub) - 1) = sub

(***************************************************************************)
(* JavaScript values of the payload: tagged records.                       *)
(***************************************************************************)
Undefined == [t |-> "undefined"]
Null == [t |-> "null"]
Str(s) == [t |-> "string", s |-> s]
Num(n) == [t |-> "number", n |-> n]
Arr(a) == [t |-> "array", a |-> a]

\* the truth value JavaScript gives a value in a condition
Truthy(v) ==
    CASE v.t = "undefined" -> FALSE
      [] v.t = "null" -> FALSE
      [] v.t = "string" -> v.s # ""
      [] v.t = "number" -> v.n # 0
      [] OTHER -> TRUE

\* a || b trying its second operand first
Or_Second(a, b) == IF Truthy(b) THEN b ELSE a

\* a || b
Or(a, b) == IF Truthy(a) THEN a ELSE b

\* the decimal digits of a natural number
RECURSIVE Decimal(_)
Decimal(n) ==
    IF n < 10 THEN SubSeq("0123456789", n + 1, n + 1)
    ELSE Decimal(n \div 10) \o SubSeq("0123456789", (n % 10) + 1, (n % 10) + 1)

\* a value inside a template literal
ToStr(v) ==
    CASE v.t = "undefined" -> "undefined"
      [] v.t = "null" -> "null"
      [] v.t = "string" -> v.s
      [] v.t = "number" -> Decimal(v.n)
      [] OTHER -> "[object Object]"

(***************************************************************************)
(* JSON.stringify and JSON.parse on the bodies the model sends.  An order  *)
(* is a record of the properties the handler reads:                        *)
(*   orderId, id, customerEmail (customer.email), customerInfoEmail        *)
(*   (customerInfo.email), lineItems, purchasedItems;                      *)
(* wrapped tells whether it is nested under the envelope's `payload`.      *)
(***************************************************************************)
Quote(s) == "\"" \o s \o "\""

\* "key":value, or nothing for an undefined value (JSON.stringify omits it)
Field(key, v) ==
    CASE v.t = "undefined" -> ""
      [] v.t = "string" -> Quote(key) \o ":" \o Quote(v.s)
      [] OTHER -> Quote(key) \o ":" \o ToStr(v)

RECURSIVE Join(_)
Join(parts) ==
    IF parts = <<>> THEN ""
    ELSE IF Head(parts) = "" THEN Join(Tail(parts))
    ELSE LET rest == Join(Tail(parts))
         IN  IF rest = "" THEN Head(parts) ELSE Head(parts) \o "," \o rest

\* a line item that is null instead of an object
NullItem == [t |-> "null"]

IsNullItem(item) == "productId" \notin DOMAIN item

StringifyItem(item) ==
    IF IsNullItem(item) THEN "null"
    ELSE
    "{" \o Join(<<Field("productId", Str(item.productId)), Field("name", item.name)>>) \o "}"

StringifyItems(key, v) ==
    IF v.t # "array" THEN ""
    ELSE Quote(key) \o ":[" \o Join([i \in 1..Len(v.a) |-> StringifyItem(v.a[i])]) \o "]"

StringifyEmail(key, v) ==
    IF v.t = "undefined" THEN "" ELSE Quote(key) \o ":{" \o Field("email", v) \o "}"

StringifyOrder(o) ==
    "{" \o Join(<<Field("orderId", o.orderId), Field("id", o.id),
                  StringifyEmail("customer", o.customerEmail),
                  StringifyEmail("customerInfo", o.customerInfoEmail),
                  StringifyItems("lineItems", o.lineItems),
                  StringifyItems("purchasedItems", o.purchasedItems)>>) \o "}"

\* the order fields a body carries at its top level next to payload, if any
HasFlat(v) == "flat" \in DOMAIN v

\* JSON.stringify of a parsed body
Stringify(v) ==
    CASE v.t = "object" ->
             IF v.wrapped
             THEN "{\"triggerType\":\"ecomm_new_order\",\"payload\":" \o StringifyOrder(v.order)
                  \o (IF HasFlat(v)
                      THEN "," \o SubSeq(StringifyOrder(v.flat), 2, Len(StringifyOrder(v.flat)))
                      ELSE "}")
             ELSE StringifyOrder(v.order)
      [] OTHER -> ToStr(v)

(***************************************************************************)
(* Payload validation (order.js).  A thrown Error is [ok |-> FALSE,        *)
(* message |-> its message].                                               *)
(***************************************************************************)
Throw(msg) == [ok |-> FALSE, message |-> msg]

\* validateEnvironment: env.set is the set of environment variables that are set
RequiredEnv == <<"WEBFLOW_SITE_ID", "WEBFLOW_API_TOKEN", "RESEND_API_KEY", "RESEND_FROM_EMAIL">>

validateEnvironment(env) ==
    LET missing == SelectSeq(RequiredEnv, LAMBDA key : key \notin env.set)
    IN  IF Len(missing) > 0
        THEN Throw("Missing required environment variables: "
                   \o Join([i \in 1..Len(missing) |-> missing[i]]))
        ELSE [ok |-> TRUE]

\* payload.payload || payload: a body is the object nested under payload (an
\* object, hence truthy) with or without order fields beside it, or the flat
\* order itself
OrderData(payload) ==
    LET none == [orderId |-> Undefined, id |-> Undefined, customerEmail |-> Undefined,
                 customerInfoEmail |-> Undefined, lineItems |-> Undefined,
                 purchasedItems |-> Undefined]
        nested == IF payload.wrapped THEN [t |-> "object", order |-> payload.order]
                  ELSE Undefined
        self == [t |-> "object",
                 order |-> IF ~payload.wrapped THEN payload.order
                           ELSE IF "flat" \in DOMAIN payload THEN payload.flat
                           ELSE none]
    IN  Or(nested, self).order

\* validateWebhookPayload with the check of the items moved before the check
\* of the email
validateWebhookPayload_ItemsFirst(payload) ==
    IF ~Truthy(payload) \/ payload.t \notin {"object", "array"}
    THEN Throw("Invalid payload format")
    ELSE IF payload.t = "array"
    THEN Throw("No items in order")
    ELSE
    LET orderData == OrderData(payload)
        customerEmail == Or(orderData.customerEmail, orderData.customerInfoEmail)
        lineItems == Or(Or(orderData.lineItems, orderData.purchasedItems), Arr(<<>>))
    IN  IF lineItems.t # "array" \/ Len(lineItems.a) = 0
        THEN Throw("No items in order")
        ELSE IF ~Truthy(customerEmail)
        THEN Throw("Invalid or missing customer email")
        ELSE IF customerEmail.t # "string"
        THEN Throw("customerEmail.includes is not a function")
        ELSE IF ~Includes(customerEmail.s, "@")
        THEN Throw("Invalid or missing customer email")
        ELSE [ok |-> TRUE, customerEmail |-> customerEmail.s,
              lineItems |-> lineItems.a, orderData |-> orderData]

\* validateWebhookPayload
validateWebhookPayload(payload) ==
    IF ~Truthy(payload) \/ payload.t \notin {"object", "array"}
    THEN Throw("Invalid payload format")
    ELSE IF payload.t = "array"
    THEN Throw("Invalid or missing customer email")
    ELSE
    LET orderData == OrderData(payload)
        customerEmail == Or(orderData.customerEmail, orderData.customerInfoEmail)
        lineItems == Or(Or(orderData.lineItems, orderData.purchasedItems), Arr(<<>>))
    IN  IF ~Truthy(customerEmail)
        THEN Throw("Invalid or missing customer email")
        ELSE IF customerEmail.t # "string"
        THEN Throw("customerEmail.includes is not a function")
        ELSE IF ~Includes(customerEmail.s, "@")
        THEN Throw("Invalid or missing customer email")
        ELSE IF lineItems.t # "array" \/ Len(lineItems.a) = 0
        THEN Throw("No items in order")
        ELSE [ok |-> TRUE, customerEmail |-> customerEmail.s,
              lineItems |-> lineItems.a, orderData |-> orderData]

(***************************************************************************)
(* Idempotency cache (order.js): the Map, as the sequence of its keys in   *)
(* insertion order.                                                        *)
(***************************************************************************)
MAX_CACHE_SIZE == 1000

\* the key: SHA-256, taken as free of collisions, of the three joined fields
IdempotencyKey(orderId, customerEmail, productId) ==
    "sha256(" \o ToStr(orderId) \o "-" \o customerEmail \o "-" \o productId \o ")"

\* isAlreadyProcessed looking the key up in a Map that is never filled
isAlreadyProcessed_Never(cache, idempotencyKey) == FALSE

isAlreadyProcessed(cache, idempotencyKey) ==
    \E i \in 1..Len(cache) : cache[i] = idempotencyKey

\* Map.set keeps the place of a key that is already present
MapSet(cache, key) == IF isAlreadyProcessed(cache, key) THEN cache ELSE Append(cache, key)

\* markAsProcessed evicting without recording the new key
markAsProcessed_NoInsert(cache, idempotencyKey) ==
    IF Len(cache) >= MAX_CACHE_SIZE THEN Tail(cache) ELSE cache

\* markAsProcessed without the eviction
markAsProcessed_NoEvict(cache, idempotencyKey) == MapSet(cache, idempotencyKey)

\* markAsProcessed evicting the newest entry instead of the oldest
markAsProcessed_EvictNewest(cache, idempotencyKey) ==
    LET kept == IF Len(cache) >= MAX_CACHE_SIZE THEN SubSeq(cache, 1, Len(cache) - 1) ELSE cache
    IN  MapSet(kept, idempotencyKey)

markAsProcessed(cache, idempotencyKey) ==
    LET kept == IF Len(cache) >= MAX_CACHE_SIZE THEN Tail(cache) ELSE cache
    IN  MapSet(kept, idempotencyKey)

(***************************************************************************)
(* Content API data and workshop classification (lib/webflow.js).          *)
(***************************************************************************)
SERVICE_TYPE == "c599e43b1a1c34d5a323aedf75d3adf6"
WORKSHOP_CATEGORY == "66e8d658ede37e2f7706b996"

\* a product record of the content API
Product(name, fdName, type, category, content) ==
    [t |-> "object", name |-> name,
     fieldData |-> [t |-> "object", name |-> fdName, type |-> type, category |-> category,
                    content |-> content]]

\* what GET /sites/{site}/products/{id} answers for the products of the model
Catalog(productId) ==
    CASE productId = "p1" ->
             [product |-> Product(Undefined, Str("Pottery 101"), Str(SERVICE_TYPE), Undefined,
                                  Str("<p>Bring an apron</p>"))]
      [] productId = "p2" ->
             [product |-> Product(Str("Mug"), Str("Mug"), Str("physical"), Arr(<<"tableware">>),
                                  Undefined)]
      [] productId = "p3" ->
             [product |-> Product(Undefined, Undefined, Str("physical"),
                                  Arr(<<"tableware", WORKSHOP_CATEGORY>>), Undefined)]
      [] productId = "p5" ->
             [product |-> [t |-> "object", name |-> Str("Gift card"), fieldData |-> Undefined]]
      [] OTHER -> [product |-> Undefined]

\* isWorkshopProduct taking every product for a workshop
isWorkshopProduct_Always(product) == [ok |-> TRUE, value |-> TRUE]

\* isWorkshopProduct; reading fieldData of an undefined product throws
isWorkshopProduct(product) ==
    IF product.t = "undefined"
    THEN Throw("Cannot read properties of undefined (reading 'fieldData')")
    ELSE LET fieldData == product.fieldData
             isService == fieldData.t = "object" /\ fieldData.type = Str(SERVICE_TYPE)
             hasWorkshopCategory ==
                 /\ fieldData.t = "object"
                 /\ Truthy(fieldData.category)
                 /\ \E i \in 1..Len(fieldData.category.a) :
                        fieldData.category.a[i] = WORKSHOP_CATEGORY
         IN  [ok |-> TRUE, value |-> isService \/ hasWorkshopCategory]

\* resolveGuidelines(siteId, {productId}): the product branch
resolveGuidelines(productResponse) ==
    LET product == productResponse.product
    IN  IF product.t = "undefined"
        THEN Throw("Cannot read properties of undefined (reading 'fieldData')")
        ELSE [ok |-> TRUE,
              value |-> [t |-> "object",
                         name |-> IF product.fieldData.t = "object"
                                  THEN Or(product.fieldData.name, product.name)
                                  ELSE product.name,
                         guidelinesHtml |-> IF product.fieldData.t = "object"
                                            THEN product.fieldData.content
                                            ELSE Undefined,
                         source |-> "product"]]

\* what GET /sites/{site}/collections/{collection}/items/{id} answers
CmsCatalog(cmsItemId) ==
    [t |-> "object", name |-> Str("Studio " \o cmsItemId),
     fieldData |-> [t |-> "object", name |-> Undefined,
                    content |-> Str("<p>Studio rules</p>")]]

\* resolveGuidelines(siteId, {productId, cmsItemId}): the CMS item when a
\* cmsItemId is given and the workshops collection is configured, otherwise
\* the product
resolveGuidelinesFor(e, request) ==
    IF Truthy(request.cmsItemId) /\ "WEBFLOW_WORKSHOPS_COLLECTION_ID" \in e.set
    THEN LET cmsItem == CmsCatalog(request.cmsItemId.s)
         IN  [ok |-> TRUE,
              value |-> [t |-> "object",
                         name |-> Or(cmsItem.fieldData.name, cmsItem.name),
                         guidelinesHtml |-> cmsItem.fieldData.content,
                         source |-> "cms"]]
    ELSE resolveGuidelines(Catalog(request.productId))

\* the handler naming the product as the CMS item as well
GuidelinesRequest_WithCmsItem(item) ==
    [productId |-> item.productId, cmsItemId |-> Str(item.productId)]

\* the options the handler calls resolveGuidelines with
GuidelinesRequest(item) == [productId |-> item.productId, cmsItemId |-> Undefined]

(***************************************************************************)
(* Backoff wrapper (lib/retry.js).                                         *)
(***************************************************************************)
maxRetries == 3

\* an error of an upstream call: the HTTP status of its response, if any,
\* its network code, if any, and its message
HttpError(status) ==
    [response |-> Num(status), code |-> Undefined,
     message |-> "Request failed with status code "
                 \o ToStr(Num(status \div 100)) \o ToStr(Num((status \div 10) % 10))
                 \o ToStr(Num(status % 10))]

\* defaultShouldRetry taking every error for a transient one
defaultShouldRetry_Always(error) == TRUE

defaultShouldRetry(error) ==
    \/ error.response.t = "number" /\ error.response.n = 429
    \/ error.response.t = "number" /\ error.response.n >= 500
    \/ error.code = Str("ECONNRESET") \/ error.code = Str("ETIMEDOUT")

\* the options withBackoff takes when the caller gives none
baseDelay == 1000
maxDelay == 10000

Min(a, b) == IF a <= b THEN a ELSE b

RECURSIVE Pow2(_)
Pow2(n) == IF n = 0 THEN 1 ELSE 2 * Pow2(n - 1)

\* the delay growing by baseDelay at each attempt
Delay_Linear(options, attempt, jitter) ==
    Min(options.baseDelay * (attempt + 1) + jitter, options.maxDelay)

\* the delay before the next attempt; jitter is Math.random() * 1000
Delay(options, attempt, jitter) ==
    Min(options.baseDelay * Pow2(attempt) + jitter, options.maxDelay)

(***************************************************************************)
(* Values the verifier is exercised with.                                  *)
(***************************************************************************)
Secrets == {Codes("k1"), Codes("s2")}
Timestamps == {Codes("17"), Codes("42")}
RawBodies == {Codes("{}"), Codes("null"), Codes("[1]")}
\* characters appended to a signature
ExtraChars == {CodeOf("z"), CodeOf("0"), CodeOf("f")}
\* a signature that is no hex at all, as the deployment test sends
GarbageSignature == Codes("invalid_signature_12345")

(***************************************************************************)
(* Requests the handler is exercised with.                                 *)
(***************************************************************************)
Requests == {"r1", "r2"}

Seqs(S, n) == UNION {[1..k -> S] : k \in 0..n}

Item(productId) == [productId |-> productId, name |-> Str("Clay " \o productId)]

Order(orderId, customerEmail, customerInfoEmail, lineItems, purchasedItems) ==
    [orderId |-> orderId, id |-> Undefined,
     customerEmail |-> customerEmail, customerInfoEmail |-> customerInfoEmail,
     lineItems |-> lineItems, purchasedItems |-> purchasedItems]

\* the usual order of one customer for a list of items
CanonicalOrder(items) ==
    Order(Str("o1"), Str("a@b.com"), Undefined, Arr(items), Undefined)

ObjectBody(wrapped, order) == [t |-> "object", wrapped |-> wrapped, order |-> order]

\* orders with one item, or none, and every shape of customer email
EmailOrders ==
    {Order(Str("o1"), e[1], e[2], Arr(items), Undefined) :
        e \in {<<Str("a@b.com"), Undefined>>, <<Undefined, Str("a@b.com")>>,
               <<Undefined, Undefined>>, <<Str("nobody"), Undefined>>,
               <<Str(""), Undefined>>, <<Num(5), Undefined>>},
        items \in {<<>>, <<Item("p1")>>}}

\* orders of the usual customer for every list of items
ItemOrders ==
    {CanonicalOrder(items) : items \in Seqs({Item("p1"), Item("p2")}, MaxItems)}
    \cup {CanonicalOrder(<<Item(p)>>) : p \in {"p3", "p4"}}

\* an order that carries neither orderId nor id
AnonymousOrder ==
    Order(Undefined, Str("a@b.com"), Undefined, Arr(<<Item("p1")>>), Undefined)

\* an order that holds a valid value under both accessors of every pair
BothOrder ==
    [orderId |-> Str("o1"), id |-> Str("o2"),
     customerEmail |-> Str("a@b.com"), customerInfoEmail |-> Str("c@d.com"),
     lineItems |-> Arr(<<Item("p1")>>), purchasedItems |-> Arr(<<Item("p2")>>)]

\* an order that holds a value under the second accessor of every pair only
SecondOrder ==
    [orderId |-> Undefined, id |-> Str("o2"),
     customerEmail |-> Undefined, customerInfoEmail |-> Str("c@d.com"),
     lineItems |-> Undefined, purchasedItems |-> Arr(<<Item("p2")>>)]

\* a body with an order nested under payload and the fields of another order
\* at its top level
EnvelopeBody(nested, flat) ==
    [t |-> "object", wrapped |-> TRUE, order |-> nested, flat |-> flat]

\* bodies that try the accessors of the normalizer
PriorityBodies ==
    {ObjectBody(w, o) : w \in BOOLEAN, o \in {BothOrder, SecondOrder}}
    \cup {EnvelopeBody(BothOrder, Order(Str("o9"), Str("x@y.com"), Undefined,
                                        Arr(<<Item("p3")>>), Undefined))}

\* orders with a null among their line items
NullItemOrders ==
    {CanonicalOrder(items) : items \in {<<NullItem>>, <<Item("p1"), NullItem>>}}

\* bodies that reach the handler already parsed (the platform's body parser)
ObjectBodies ==
    {ObjectBody(TRUE, o) : o \in EmailOrders \cup ItemOrders}
    \cup {ObjectBody(FALSE, CanonicalOrder(<<Item("p1")>>))}

\* everything JSON.parse can answer in the model
Parseable == ObjectBodies \cup {Null, Num(5)}

\* JSON.parse: the value whose JSON text is raw, or a SyntaxError
JSONparse(raw) ==
    IF \E v \in Parseable : Stringify(v) = raw
    THEN [ok |-> TRUE, value |-> CHOOSE v \in Parseable : Stringify(v) = raw]
    ELSE Throw("Unexpected end of JSON input")

\* bodies that reach the handler as text
StringBodies ==
    {Str("{\"payload\":"), Str("null"), Str("5"),
     Str(Stringify(ObjectBody(TRUE, CanonicalOrder(<<Item("p1")>>))))}

Bodies == ObjectBodies \cup StringBodies \cup {Undefined}

\* rawBody of the handler, as it stands in the signed content
RawBody(body) == IF body.t = "string" THEN body.s ELSE Stringify(body)

\* the signature header a sender of each kind puts on a body
SignatureKinds == {"none", "good", "otherKey", "garbage", "trailing"}

SignatureOf(kind, body, timestamp) ==
    LET ts == IF Falsy(timestamp) THEN Codes("17") ELSE timestamp
        good == createWebhookSignature(Codes(RawBody(body)), Codes("k1"), ts)
    IN  CASE kind = "none" -> Absent
          [] kind = "good" -> good
          [] kind = "otherKey" -> createWebhookSignature(Codes(RawBody(body)), Codes("s2"), ts)
          [] kind = "garbage" -> GarbageSignature
          [] kind = "trailing" -> Append(good, CodeOf("z"))

Request(method, kind, timestamp, body) ==
    [method |-> method, signature |-> SignatureOf(kind, body, timestamp),
     timestamp |-> timestamp, body |-> body]

\* the items of a body, if it is an order with a list of items
ItemsOf(body) ==
    IF body.t = "object" /\ body.order.lineItems.t = "array" THEN body.order.lineItems.a ELSE <<>>

\* requests of the sequential specification: every method, header and body;
\* orders of several items come with the plain signature
SeqInputs ==
    {Request(m, k, ts, b) :
        m \in {"POST", "GET"}, k \in SignatureKinds,
        ts \in {Absent, Codes("17")},
        b \in {x \in Bodies : Len(ItemsOf(x)) <= 1}}
    \cup {Request("POST", k, Codes("17"), b) :
            k \in {"good", "none"}, b \in {x \in Bodies : Len(ItemsOf(x)) > 1}}

\* createWebhookSignature of the deployment tests: the HMAC of the
\* JSON-serialised payload alone
createWebhookSignatureOfBody(payload, secret) == HmacHex(secret, Codes(Stringify(payload)))

\* the order the deployment tests send: customerInfo.email and purchasedItems
DeploymentTestPayload ==
    ObjectBody(TRUE, Order(Str("o1"), Undefined, Str("a@b.com"), Undefined,
                           Arr(<<Item("p1")>>)))

\* makeRequest of the deployment tests: the signature header and no timestamp
DeploymentTestRequest ==
    [method |-> "POST",
     signature |-> createWebhookSignatureOfBody(DeploymentTestPayload, Codes("k1")),
     timestamp |-> Absent, body |-> DeploymentTestPayload]

\* orders with every combination of the two item paths
PathOrders ==
    {Order(Str("o1"), Str("a@b.com"), Undefined, li, pi) :
        li \in {Undefined, Arr(<<>>), Arr(<<Item("p1")>>)},
        pi \in {Undefined, Arr(<<>>), Arr(<<Item("p2")>>)}}

\* requests of the specification of one request: those, the order without
\* an id, the orders over both item paths and the deployment test's request
LiveInputs ==
    SeqInputs
    \cup {Request("POST", k, Codes("17"), ObjectBody(TRUE, o)) :
            k \in {"good", "none"},
            o \in {AnonymousOrder, CanonicalOrder(<<Item("p5")>>)} \cup PathOrders}
    \cup {DeploymentTestRequest}
    \cup {Request("POST", k, Codes("17"), b) : k \in {"good", "none"}, b \in PriorityBodies}
    \cup {Request("POST", "good", Codes("17"), ObjectBody(TRUE, o)) : o \in NullItemOrders}

\* requests of the concurrent specification: orders of one item
RaceInputs ==
    {Request("POST", k, Codes("17"), ObjectBody(TRUE, CanonicalOrder(<<Item(p)>>))) :
        k \in {"good", "none"}, p \in {"p1", "p2", "p3"}}
    \cup {Request("GET", "good", Codes("17"), ObjectBody(TRUE, CanonicalOrder(<<Item("p1")>>))),
          Request("POST", "good", Codes("17"), ObjectBody(TRUE, CanonicalOrder(<<>>)))}

\* orders of one workshop whose triples differ and whose fields join to the
\* same text: a '-' that moves between the order id and the email, and an
\* absent order id next to the order id 'undefined'
KeyOrders ==
    {Order(Str("o-1"), Str("a@b.com"), Undefined, Arr(<<Item("p1")>>), Undefined),
     Order(Str("o"), Str("1-a@b.com"), Undefined, Arr(<<Item("p1")>>), Undefined),
     Order(Str("undefined"), Str("a@b.com"), Undefined, Arr(<<Item("p1")>>), Undefined),
     AnonymousOrder}

KeyInputs == {Request("POST", "good", Codes("17"), ObjectBody(TRUE, o)) : o \in KeyOrders}

\* process.env: the variables that are set, the webhook secret, DEBUG_LOGGING
Envs ==
    [set : {{"WEBFLOW_SITE_ID", "WEBFLOW_API_TOKEN", "RESEND_API_KEY", "RESEND_FROM_EMAIL"},
            {"WEBFLOW_SITE_ID", "WEBFLOW_API_TOKEN", "RESEND_FROM_EMAIL"}},
     secret : {Codes("k1"), Absent},
     debug : BOOLEAN]

\* errors the upstream APIs answer with
UpstreamErrors == {HttpError(503), HttpError(400)}

VARIABLES
    env,              \* process.env
    processedOrders,  \* the idempotency Map: its keys in insertion order
    req,              \* the requests in flight: one handler invocation each
    runs,             \* number of requests started so far
    faults,           \* number of upstream calls that have failed so far
    vf,               \* the verifier exercised alone
    cs,               \* the cache exercised alone
    bk                \* withBackoff exercised alone

vars == <<env, processedOrders, req, runs, faults, vf, cs, bk>>


(***************************************************************************)
(* The order handler (order.js).  One record per handler invocation:       *)
(*   pc        idle, call (awaiting an upstream call inside withBackoff),  *)
(*             sleep (awaiting the backoff sleep), done (response sent)    *)
(*   input     the request                                                 *)
(*   after     the requests that had been answered when this one started   *)
(*   orderId, customerEmail, lineItems   the validated payload             *)
(*   idx       index of the line item being processed                      *)
(*   op        the upstream call awaited: product, guidelines, dispatch    *)
(*   attempt   loop variable of withBackoff                                *)
(*   failed    attempts of the current withBackoff call that threw         *)
(*   slept     sleeps the current withBackoff call has started             *)
(*   lastError lastError of the current withBackoff call                   *)
(*   workshopName   workshopData.name of the item being processed          *)
(*   results   the per-item results so far                                 *)
(*   calls     upstream calls issued, per API operation                    *)
(*   response  HTTP status and JSON body, status 0 while unanswered        *)
(***************************************************************************)
NoRequest == [method |-> "none", signature |-> Absent, timestamp |-> Absent, body |-> Undefined]

NoResponse == [status |-> 0, body |-> [none |-> TRUE]]

ZeroCalls == [product |-> 0, guidelines |-> 0, dispatch |-> 0]

IdleSlot ==
    [pc |-> "idle", input |-> NoRequest, after |-> {},
     orderId |-> Undefined, customerEmail |-> "", lineItems |-> <<>>,
     idx |-> 0, op |-> "none", attempt |-> 0,
     failed |-> 0, slept |-> 0, lastError |-> Undefined,
     workshopName |-> Undefined, source |-> "none", results |-> <<>>,
     calls |-> ZeroCalls, response |-> NoResponse]

\* res.status(status).json(body)
Respond(s, status, body) ==
    [s EXCEPT !.pc = "done", !.op = "none", !.response = [status |-> status, body |-> body]]

\* the outer catch answering with the message of whatever it caught
OuterCatch_Raw(s, message) ==
    Respond(s, 200, [success |-> FALSE, error |-> message])

\* the handler's outer catch
OuterCatch(s, message) ==
    LET isValidationError == Includes(message, "Invalid") \/ Includes(message, "Missing")
        errorMessage == IF isValidationError THEN message ELSE "Internal processing error"
    IN  Respond(s, 200, [success |-> FALSE, error |-> errorMessage])

\* the response after the loop over the line items
RespondResults(s) ==
    Respond(s, 200, [success |-> TRUE, orderId |-> s.orderId,
                     customerEmail |-> s.customerEmail, results |-> s.results])

\* withBackoff(fn) starts: attempt 0 calls fn
Issue(s, op) ==
    [s EXCEPT !.pc = "call", !.op = op, !.attempt = 0, !.calls[op] = @ + 1,
              !.failed = 0, !.slept = 0, !.lastError = Undefined]

CurrentItem(s) == s.lineItems[s.idx]

CurrentKey(s) == IdempotencyKey(s.orderId, s.customerEmail, CurrentItem(s).productId)

\* the result put in front of the earlier results
PushResult_Unshift(s, result) ==
    [s EXCEPT !.results = <<result>> \o @, !.idx = @ + 1, !.workshopName = Undefined,
              !.source = "none"]

\* results.push(result), and on to the next item
PushResult(s, result) ==
    [s EXCEPT !.results = Append(@, result), !.idx = @ + 1, !.workshopName = Undefined,
              !.source = "none"]

AlreadyProcessedResult(item) ==
    [productId |-> item.productId, status |-> "skipped", reason |-> "Already processed"]

NotWorkshopResult(item) ==
    [productId |-> item.productId, status |-> "skipped", reason |-> "Not a workshop product"]

ErrorResult(item, message) ==
    [productId |-> item.productId, status |-> "error", error |-> message]

\* the success result reporting the name of the line item
SuccessResult_ItemName(item, workshopName) ==
    [productId |-> item.productId, status |-> "success",
     workshopName |-> item.name, emailSent |-> TRUE]

SuccessResult(item, workshopName) ==
    [productId |-> item.productId, status |-> "success",
     workshopName |-> workshopName, emailSent |-> TRUE]

\* The loop over the line items from item s.idx on, up to the next await: items
\* found in the cache are skipped at once; the first other item has its
\* product fetched; after the last item the response is sent.
RECURSIVE Advance(_, _)
Advance(s, cache) ==
    IF s.idx > Len(s.lineItems) THEN RespondResults(s)
    ELSE IF IsNullItem(CurrentItem(s))
    THEN \* lineItem.productId throws in the try and again in the per-item catch
         OuterCatch(s, "Cannot read properties of null (reading 'productId')")
    ELSE IF isAlreadyProcessed(cache, CurrentKey(s))
    THEN Advance(PushResult(s, AlreadyProcessedResult(CurrentItem(s))), cache)
    ELSE Issue(s, "product")

\* the per-item exception thrown on: the handler ends without a response
ItemCatch_Escape(s, message, cache) == [s EXCEPT !.pc = "crashed", !.op = "none"]

\* the per-item exception left to the handler's outer catch
ItemCatch_Abort(s, message, cache) == OuterCatch(s, message)

\* the per-item catch
ItemCatch(s, message, cache) ==
    Advance(PushResult(s, ErrorResult(CurrentItem(s), message)), cache)

\* the handler parsing the body before it verifies the signature
Enter_ParseFirst(s, e, cache) ==
    LET in == s.input
        rawBody == RawBody(in.body)
        parsed == IF in.body.t = "string" THEN JSONparse(in.body.s)
                  ELSE [ok |-> TRUE, value |-> in.body]
        \* the debug log of the parsed payload reads payload.triggerType
        logThrows == e.debug /\ parsed.ok /\ parsed.value.t \in {"null", "undefined"}
        valid == validateWebhookPayload(parsed.value)
    IN  IF in.method # "POST"
        THEN Respond(s, 405, [error |-> "Method not allowed"])
        ELSE IF ~validateEnvironment(e).ok
        THEN OuterCatch(s, validateEnvironment(e).message)
        ELSE IF ~parsed.ok \/ logThrows
        THEN Respond(s, 400, [error |-> "Invalid JSON payload"])
        ELSE IF ~verifyWebhookSignature(Codes(rawBody), in.signature, in.timestamp, e.secret)
        THEN Respond(s, 401, [error |-> "Invalid signature"])
        ELSE IF ~valid.ok
        THEN OuterCatch(s, valid.message)
        ELSE LET t == [s EXCEPT !.orderId = Or(valid.orderData.orderId, valid.orderData.id),
                                !.customerEmail = valid.customerEmail,
                                !.lineItems = valid.lineItems]
             IN  \* the debug log of the order maps item.productId over the items
                 IF e.debug /\ \E i \in 1..Len(valid.lineItems) : IsNullItem(valid.lineItems[i])
                 THEN OuterCatch(t, "Cannot read properties of null (reading 'productId')")
                 ELSE Advance([t EXCEPT !.idx = 1], cache)

\* The handler from its entry to its first await or to its response.
Enter(s, e, cache) ==
    LET in == s.input
        rawBody == RawBody(in.body)
        parsed == IF in.body.t = "string" THEN JSONparse(in.body.s)
                  ELSE [ok |-> TRUE, value |-> in.body]
        \* the debug log of the parsed payload reads payload.triggerType
        logThrows == e.debug /\ parsed.ok /\ parsed.value.t \in {"null", "undefined"}
        valid == validateWebhookPayload(parsed.value)
    IN  IF in.method # "POST"
        THEN Respond(s, 405, [error |-> "Method not allowed"])
        ELSE IF ~validateEnvironment(e).ok
        THEN OuterCatch(s, validateEnvironment(e).message)
        ELSE IF ~verifyWebhookSignature(Codes(rawBody), in.signature, in.timestamp, e.secret)
        THEN Respond(s, 401, [error |-> "Invalid signature"])
        ELSE IF ~parsed.ok \/ logThrows
        THEN Respond(s, 400, [error |-> "Invalid JSON payload"])
        ELSE IF ~valid.ok
        THEN OuterCatch(s, valid.message)
        ELSE LET t == [s EXCEPT !.orderId = Or(valid.orderData.orderId, valid.orderData.id),
                                !.customerEmail = valid.customerEmail,
                                !.lineItems = valid.lineItems]
             IN  \* the debug log of the order maps item.productId over the items
                 IF e.debug /\ \E i \in 1..Len(valid.lineItems) : IsNullItem(valid.lineItems[i])
                 THEN OuterCatch(t, "Cannot read properties of null (reading 'productId')")
                 ELSE Advance([t EXCEPT !.idx = 1], cache)

\* A request arrives and the handler runs to its first await.
Start(r, in) ==
    /\ req[r].pc = "idle"
    /\ runs < MaxRuns
    /\ runs' = runs + 1
    /\ req' = [req EXCEPT ![r] =
                  Enter([IdleSlot EXCEPT !.input = in,
                                         !.after = {q \in Requests : req[q].pc = "done"}],
                        env, processedOrders)]
    /\ UNCHANGED <<env, processedOrders, faults, vf, cs, bk>>

\* getProduct answers: classify the product, then skip it or resolve its guidelines
ProductReturns(r) ==
    LET s == req[r]
        productResponse == Catalog(CurrentItem(s).productId)
        workshop == isWorkshopProduct(productResponse.product)
    IN  /\ s.pc = "call" /\ s.op = "product"
        /\ req' = [req EXCEPT ![r] =
                      IF ~workshop.ok THEN ItemCatch(s, workshop.message, processedOrders)
                      ELSE IF ~workshop.value
                      THEN Advance(PushResult(s, NotWorkshopResult(CurrentItem(s))), processedOrders)
                      ELSE Issue(s, "guidelines")]
        /\ UNCHANGED <<env, processedOrders, runs, faults, vf, cs, bk>>

\* the key recorded as soon as the guidelines are resolved, before the email
\* is sent
GuidelinesReturn_MarkFirst(r) ==
    LET s == req[r]
        guidelines == resolveGuidelinesFor(env, GuidelinesRequest(CurrentItem(s)))
    IN  /\ s.pc = "call" /\ s.op = "guidelines"
        /\ processedOrders' = IF guidelines.ok
                               THEN markAsProcessed(processedOrders, CurrentKey(s))
                               ELSE processedOrders
        /\ req' = [req EXCEPT ![r] =
                      IF ~guidelines.ok THEN ItemCatch(s, guidelines.message, processedOrders)
                      ELSE IF ~Truthy(guidelines.value)
                      THEN Advance(PushResult(s, ErrorResult(CurrentItem(s),
                                                  "No guidelines found for workshop")),
                                   processedOrders)
                      ELSE Issue([s EXCEPT !.workshopName =
                                      Or(guidelines.value.name, CurrentItem(s).name),
                                           !.source = guidelines.value.source],
                                 "dispatch")]
        /\ UNCHANGED <<env, runs, faults, vf, cs, bk>>

\* resolveGuidelines answers: compose workshopData and send the email
GuidelinesReturn(r) ==
    LET s == req[r]
        guidelines == resolveGuidelinesFor(env, GuidelinesRequest(CurrentItem(s)))
    IN  /\ s.pc = "call" /\ s.op = "guidelines"
        /\ req' = [req EXCEPT ![r] =
                      IF ~guidelines.ok THEN ItemCatch(s, guidelines.message, processedOrders)
                      ELSE IF ~Truthy(guidelines.value)
                      THEN Advance(PushResult(s, ErrorResult(CurrentItem(s),
                                                  "No guidelines found for workshop")),
                                   processedOrders)
                      ELSE Issue([s EXCEPT !.workshopName =
                                      Or(guidelines.value.name, CurrentItem(s).name),
                                           !.source = guidelines.value.source],
                                 "dispatch")]
        /\ UNCHANGED <<env, processedOrders, runs, faults, vf, cs, bk>>

\* sendWorkshopEmail answers: record the key, push the success result
DispatchReturns(r) ==
    LET s == req[r]
        cache == markAsProcessed(processedOrders, CurrentKey(s))
    IN  /\ s.pc = "call" /\ s.op = "dispatch"
        /\ processedOrders' = cache
        /\ req' = [req EXCEPT ![r] =
                      Advance(PushResult(s, SuccessResult(CurrentItem(s), s.workshopName)), cache)]
        /\ UNCHANGED <<env, runs, faults, vf, cs, bk>>

\* withBackoff going to the next attempt without the sleep
AttemptFails_NoSleep(r, error) ==
    LET s == [req[r] EXCEPT !.failed = @ + 1, !.lastError = error]
    IN  /\ s.pc = "call"
        /\ faults < MaxFaults
        /\ faults' = faults + 1
        /\ req' = [req EXCEPT ![r] =
                      IF s.attempt = maxRetries \/ ~defaultShouldRetry(error)
                      THEN ItemCatch(s, error.message, processedOrders)
                      ELSE [s EXCEPT !.attempt = @ + 1, !.calls[s.op] = @ + 1]]
        /\ UNCHANGED <<env, processedOrders, runs, vf, cs, bk>>

\* The awaited call fails inside withBackoff: the last attempt and a
\* non-retryable error throw to the per-item catch, otherwise the wrapper sleeps.
AttemptFails(r, error) ==
    LET s == [req[r] EXCEPT !.failed = @ + 1, !.lastError = error]
    IN  /\ s.pc = "call"
        /\ faults < MaxFaults
        /\ faults' = faults + 1
        /\ req' = [req EXCEPT ![r] =
                      IF s.attempt = maxRetries \/ ~defaultShouldRetry(error)
                      THEN ItemCatch(s, error.message, processedOrders)
                      ELSE [s EXCEPT !.pc = "sleep", !.slept = @ + 1]]
        /\ UNCHANGED <<env, processedOrders, runs, vf, cs, bk>>

\* the sleep of withBackoff ends: the next attempt calls fn again
SleepEnds(r) ==
    LET s == req[r]
    IN  /\ s.pc = "sleep"
        /\ req' = [req EXCEPT ![r] = [s EXCEPT !.pc = "call", !.attempt = @ + 1,
                                               !.calls[s.op] = @ + 1]]
        /\ UNCHANGED <<env, processedOrders, runs, faults, vf, cs, bk>>

\* the invocation is over; the process is ready for the next request
Recycle(r) ==
    /\ req[r].pc = "done"
    /\ runs < MaxRuns
    /\ req' = [req EXCEPT ![r] = IdleSlot]
    /\ UNCHANGED <<env, processedOrders, runs, faults, vf, cs, bk>>

\* withBackoff exercised alone, before any call
BkOff ==
    [pc |-> "off", maxRetries |-> 0, baseDelay |-> 0, maxDelay |-> 0, attempt |-> 0,
     invoked |-> 0, consulted |-> 0, sleeps |-> <<>>, lastError |-> Undefined,
     thrown |-> Undefined]

VfOff ==
    [pc |-> "off", signKey |-> Absent, secret |-> Absent, timestamp |-> Absent,
     body |-> <<>>, signature |-> Absent, tamper |-> "none", result |-> FALSE]

\* the cache driver before any call
CsOff == [n |-> 0, again |-> 0, looked |-> 0, found |-> FALSE]

Init ==
    /\ env \in Envs
    /\ processedOrders = <<>>
    /\ req = [r \in Requests |-> IdleSlot]
    /\ runs = 0
    /\ faults = 0
    /\ vf = VfOff
    /\ cs = CsOff
    /\ bk = BkOff

\* requests handled concurrently by one process
Next ==
    \/ \E r \in Requests, in \in RaceInputs : Start(r, in)
    \/ \E r \in Requests : ProductReturns(r)
    \/ \E r \in Requests : GuidelinesReturn(r)
    \/ \E r \in Requests : DispatchReturns(r)
    \/ \E r \in Requests, error \in UpstreamErrors : AttemptFails(r, error)
    \/ \E r \in Requests : SleepEnds(r)

Spec == Init /\ [][Next]_vars

\* requests for orders of different customers handled by one process
NextKeys ==
    \/ \E r \in Requests, in \in KeyInputs : Start(r, in)
    \/ \E r \in Requests : ProductReturns(r)
    \/ \E r \in Requests : GuidelinesReturn(r)
    \/ \E r \in Requests : DispatchReturns(r)
    \/ \E r \in Requests, error \in UpstreamErrors : AttemptFails(r, error)
    \/ \E r \in Requests : SleepEnds(r)

SpecKeys == Init /\ [][NextKeys]_vars

\* requests handled one after the other by one process
NextSeq ==
    \/ \E in \in SeqInputs : Start("r1", in)
    \/ ProductReturns("r1")
    \/ GuidelinesReturn("r1")
    \/ DispatchReturns("r1")
    \/ \E error \in UpstreamErrors : AttemptFails("r1", error)
    \/ SleepEnds("r1")
    \/ Recycle("r1")

SpecSeq == Init /\ [][NextSeq]_vars

\* One request from its arrival to its response.  Every awaited upstream call
\* ends, with a value or with an error, and every sleep of withBackoff ends.
NextLive ==
    \/ \E in \in LiveInputs : Start("r1", in)
    \/ ProductReturns("r1")
    \/ GuidelinesReturn("r1")
    \/ DispatchReturns("r1")
    \/ \E error \in UpstreamErrors : AttemptFails("r1", error)
    \/ SleepEnds("r1")

\* one request in a deployment with the workshops collection configured
InitCms ==
    /\ env \in [set : {{"WEBFLOW_SITE_ID", "WEBFLOW_API_TOKEN", "RESEND_API_KEY",
                        "RESEND_FROM_EMAIL", "WEBFLOW_WORKSHOPS_COLLECTION_ID"}},
                 secret : {Codes("k1")},
                 debug : BOOLEAN]
    /\ processedOrders = <<>>
    /\ req = [r \in Requests |-> IdleSlot]
    /\ runs = 0
    /\ faults = 0
    /\ vf = VfOff
    /\ cs = CsOff
    /\ bk = BkOff

SpecCms == InitCms /\ [][NextLive]_vars

AwaitEnds ==
    \/ ProductReturns("r1")
    \/ GuidelinesReturn("r1")
    \/ DispatchReturns("r1")
    \/ \E error \in UpstreamErrors : AttemptFails("r1", error)
    \/ SleepEnds("r1")

SpecLive == Init /\ [][NextLive]_vars /\ WF_vars(AwaitEnds)

(***************************************************************************)
(* Specification of the verifier alone: a sender signs a body, the         *)
(* signature is possibly damaged on the way, the receiver verifies it.     *)
(***************************************************************************)
InitVerify ==
    /\ env = [set |-> {}, secret |-> Absent, debug |-> FALSE]
    /\ processedOrders = <<>>
    /\ req = [r \in Requests |-> IdleSlot]
    /\ runs = 0
    /\ faults = 0
    /\ cs = CsOff
    /\ bk = BkOff
    /\ vf \in [pc : {"start"},
            signKey : Secrets,
            secret : Secrets \cup {Absent, <<>>},
            timestamp : Timestamps \cup {Absent, <<>>},
            body : RawBodies,
            signature : {Absent},
            tamper : {"none"},
            result : {FALSE}]

\* the sender signs timestamp:body with its key
VSign ==
    /\ vf.pc = "start"
    /\ vf' = [vf EXCEPT !.pc = "signed",
                        !.signature = createWebhookSignature(vf.body, vf.signKey,
                                         IF Falsy(vf.timestamp) THEN Codes("17") ELSE vf.timestamp)]
    /\ UNCHANGED <<env, processedOrders, req, runs, faults, cs, bk>>

\* one bit of one character of the signature is inverted
VFlipBit(i, b) ==
    /\ vf.pc = "signed"
    /\ i \in 1..Len(vf.signature)
    /\ vf' = [vf EXCEPT !.pc = "tampered", !.tamper = "bit",
                        !.signature = [vf.signature EXCEPT ![i] = FlipBit(vf.signature[i], b)]]
    /\ UNCHANGED <<env, processedOrders, req, runs, faults, cs, bk>>

\* characters are added after the signature (at most two)
VAppend(c) ==
    /\ \/ vf.pc = "signed"
       \/ vf.pc = "tampered" /\ vf.tamper = "append1"
    /\ vf' = [vf EXCEPT !.pc = "tampered",
                        !.tamper = IF vf.pc = "signed" THEN "append1" ELSE "append2",
                        !.signature = Append(vf.signature, c)]
    /\ UNCHANGED <<env, processedOrders, req, runs, faults, cs, bk>>

\* the last character of the signature is lost
VTruncate ==
    /\ vf.pc = "signed"
    /\ vf' = [vf EXCEPT !.pc = "tampered", !.tamper = "truncate",
                        !.signature = SubSeq(vf.signature, 1, Len(vf.signature) - 1)]
    /\ UNCHANGED <<env, processedOrders, req, runs, faults, cs, bk>>

\* the header is missing, empty or not hex at all
VReplace(s) ==
    /\ vf.pc = "signed"
    /\ vf' = [vf EXCEPT !.pc = "tampered", !.tamper = "replace", !.signature = s]
    /\ UNCHANGED <<env, processedOrders, req, runs, faults, cs, bk>>

\* the receiver verifies
VVerify ==
    /\ vf.pc \in {"signed", "tampered"}
    /\ vf' = [vf EXCEPT !.pc = "verified",
                        !.result = verifyWebhookSignature(vf.body, vf.signature,
                                                          vf.timestamp, vf.secret)]
    /\ UNCHANGED <<env, processedOrders, req, runs, faults, cs, bk>>

NextVerify ==
    \/ VSign
    \/ \E i \in 1..(2 * DigestBytes), b \in 0..7 : VFlipBit(i, b)
    \/ \E c \in ExtraChars : VAppend(c)
    \/ VTruncate
    \/ \E s \in {Absent, <<>>, GarbageSignature} : VReplace(s)
    \/ VVerify

SpecVerify == InitVerify /\ [][NextVerify]_vars

(***************************************************************************)
(* Specification of the cache alone: any sequence of markAsProcessed and   *)
(* isAlreadyProcessed calls, which is what every interleaving of requests  *)
(* amounts to on the single thread.  Distinct keys are numbered in the     *)
(* order of their first recording; cs.n is the number recorded so far.     *)
(***************************************************************************)
CacheKey(i) == IdempotencyKey(Str("o1"), "a@b.com", "p" \o Decimal(i))

InitCache ==
    /\ env = [set |-> {}, secret |-> Absent, debug |-> FALSE]
    /\ processedOrders = <<>>
    /\ req = [r \in Requests |-> IdleSlot]
    /\ runs = 0
    /\ faults = 0
    /\ vf = VfOff
    /\ cs = CsOff
    /\ bk = BkOff

\* markAsProcessed with a key never recorded before
CRecordNew ==
    /\ cs.n < MAX_CACHE_SIZE + MaxOverflow
    /\ processedOrders' = markAsProcessed(processedOrders, CacheKey(cs.n + 1))
    /\ cs' = [cs EXCEPT !.n = @ + 1, !.looked = 0]
    /\ UNCHANGED <<env, req, runs, faults, vf, bk>>

\* markAsProcessed with a key recorded before: the first or the latest
CRecordAgain(i) ==
    /\ cs.again < MaxAgain
    /\ i \in 1..cs.n
    /\ processedOrders' = markAsProcessed(processedOrders, CacheKey(i))
    /\ cs' = [cs EXCEPT !.again = @ + 1, !.looked = 0]
    /\ UNCHANGED <<env, req, runs, faults, vf, bk>>

\* isAlreadyProcessed
CLookup(i) ==
    /\ i \in 1..(cs.n + 1)
    /\ cs.looked = 0
    /\ cs' = [cs EXCEPT !.looked = i,
                        !.found = isAlreadyProcessed(processedOrders, CacheKey(i))]
    /\ UNCHANGED <<env, processedOrders, req, runs, faults, vf, bk>>

\* The handler and the cache together: the order of the workshop p1 is
\* delivered, then dispatches for other orders record their keys, and the
\* order is delivered again.
P1Request == Request("POST", "good", Codes("17"), ObjectBody(TRUE, CanonicalOrder(<<Item("p1")>>)))

\* a request reports the dispatch of the order
FirstDelivered ==
    \E r \in Requests :
        req[r].pc = "done" /\ req[r].results = <<SuccessResult(Item("p1"), Str("Pottery 101"))>>

InitEvict ==
    /\ env = [set |-> {"WEBFLOW_SITE_ID", "WEBFLOW_API_TOKEN", "RESEND_API_KEY",
                       "RESEND_FROM_EMAIL"},
              secret |-> Codes("k1"), debug |-> FALSE]
    /\ processedOrders = <<>>
    /\ req = [r \in Requests |-> IdleSlot]
    /\ runs = 0
    /\ faults = 0
    /\ vf = VfOff
    /\ cs = CsOff
    /\ bk = BkOff

\* the dispatch for an item of another product returns: markAsProcessed with
\* a key never recorded before
OtherDispatch ==
    /\ FirstDelivered
    /\ cs.n < MAX_CACHE_SIZE + MaxOverflow
    /\ processedOrders' = markAsProcessed(processedOrders, CacheKey(cs.n + 2))
    /\ cs' = [cs EXCEPT !.n = @ + 1]
    /\ UNCHANGED <<env, req, runs, faults, vf, bk>>

NextEvict ==
    \/ \E r \in Requests : Start(r, P1Request)
    \/ \E r \in Requests : ProductReturns(r)
    \/ \E r \in Requests : GuidelinesReturn(r)
    \/ \E r \in Requests : DispatchReturns(r)
    \/ OtherDispatch

SpecEvict == InitEvict /\ [][NextEvict]_vars

NextCache ==
    \/ CRecordNew
    \/ \E i \in {1, cs.n} : CRecordAgain(i)
    \/ \E i \in {1, 2, cs.n + 1} : CLookup(i)

SpecCache == InitCache /\ [][NextCache]_vars

(***************************************************************************)
(* withBackoff exercised alone: one call with its options, the operation    *)
(* answering or throwing at each invocation.                               *)
(*   pc         calling (fn is awaited), sleeping, returned, thrown        *)
(*   attempt    the loop variable                                          *)
(*   invoked    invocations of fn so far                                   *)
(*   consulted  calls of shouldRetry so far                                *)
(*   sleeps     the delays slept so far, in order                          *)
(***************************************************************************)
\* the errors the operation throws: every pairing of a status with a code
BackoffErrors ==
    {[response |-> st, code |-> c, message |-> "failed"] :
        st \in {Undefined} \cup {Num(n) : n \in {200, 304, 400, 401, 404, 428, 429, 430,
                                                  499, 500, 502, 503, 599}},
        c \in {Undefined, Str("ECONNRESET"), Str("ETIMEDOUT"), Str("ENOTFOUND"),
               Str("ECONNREFUSED")}}

\* values of Math.random() * 1000, in milliseconds
Jitters == {0, 500, 999}

BackoffOptions ==
    [maxRetries : 0..MaxRetriesOption,
     baseDelay : {baseDelay, 4000},
     maxDelay : {maxDelay, 5000}]

InitBackoff ==
    /\ env = [set |-> {}, secret |-> Absent, debug |-> FALSE]
    /\ processedOrders = <<>>
    /\ req = [r \in Requests |-> IdleSlot]
    /\ runs = 0
    /\ faults = 0
    /\ vf = VfOff
    /\ cs = CsOff
    /\ \E o \in BackoffOptions :
           bk = [BkOff EXCEPT !.pc = "calling", !.maxRetries = o.maxRetries,
                              !.baseDelay = o.baseDelay, !.maxDelay = o.maxDelay,
                              !.invoked = 1]

\* fn() answers: withBackoff returns its value
BFnReturns ==
    /\ bk.pc = "calling"
    /\ bk' = [bk EXCEPT !.pc = "returned"]
    /\ UNCHANGED <<env, processedOrders, req, runs, faults, vf, cs>>

\* the catch of withBackoff sleeping after the last attempt as well
BFnThrows_SleepLast(error, jitter) ==
    /\ bk.pc = "calling"
    /\ bk' = IF bk.attempt = bk.maxRetries + 1
             THEN [bk EXCEPT !.lastError = error, !.pc = "thrown", !.thrown = error]
             ELSE IF ~defaultShouldRetry(error)
             THEN [bk EXCEPT !.lastError = error, !.consulted = @ + 1,
                             !.pc = "thrown", !.thrown = error]
             ELSE [bk EXCEPT !.lastError = error, !.consulted = @ + 1,
                             !.sleeps = Append(@, Delay(bk, bk.attempt, jitter)),
                             !.pc = "sleeping"]
    /\ UNCHANGED <<env, processedOrders, req, runs, faults, vf, cs>>

\* fn() throws: the catch of withBackoff
BFnThrows(error, jitter) ==
    /\ bk.pc = "calling"
    /\ bk' = IF bk.attempt = bk.maxRetries
             THEN [bk EXCEPT !.lastError = error, !.pc = "thrown", !.thrown = error]
             ELSE IF ~defaultShouldRetry(error)
             THEN [bk EXCEPT !.lastError = error, !.consulted = @ + 1,
                             !.pc = "thrown", !.thrown = error]
             ELSE [bk EXCEPT !.lastError = error, !.consulted = @ + 1,
                             !.sleeps = Append(@, Delay(bk, bk.attempt, jitter)),
                             !.pc = "sleeping"]
    /\ UNCHANGED <<env, processedOrders, req, runs, faults, vf, cs>>

\* the sleep ends: the loop goes to the next attempt and invokes fn
BSleepEnds ==
    /\ bk.pc = "sleeping"
    /\ bk' = [bk EXCEPT !.pc = "calling", !.attempt = @ + 1, !.invoked = @ + 1]
    /\ UNCHANGED <<env, processedOrders, req, runs, faults, vf, cs>>

NextBackoff ==
    \/ BFnReturns
    \/ \E error \in BackoffErrors, jitter \in Jitters : BFnThrows(error, jitter)
    \/ BSleepEnds

SpecBackoff == InitBackoff /\ [][NextBackoff]_vars

(***************************************************************************)
(* Properties of the handler.                                              *)
(***************************************************************************)
Done(r) == req[r].pc = "done"

\* every required variable is set and the webhook secret is the sender's key
EnvReady == validateEnvironment(env).ok /\ env.secret = Codes("k1")

\* a correctly signed order of one workshop product
WorkshopOrderInputs ==
    {Request("POST", "good", Codes("17"), ObjectBody(TRUE, CanonicalOrder(<<Item(p)>>))) :
        p \in {"p1", "p3"}}

\* the key of the only item of such an order
KeyOf(in) ==
    IdempotencyKey(in.body.order.orderId, in.body.order.customerEmail.s,
                   in.body.order.lineItems.a[1].productId)

\* q delivers the order r delivered
Redelivery(r, q) ==
    /\ r # q
    /\ EnvReady
    /\ req[r].input \in WorkshopOrderInputs
    /\ req[q].input = req[r].input

\* C1: when two requests carry the same (orderId, customerEmail, productId)
\* of a workshop product, every upstream call succeeds and the second starts
\* after the first was answered, the first is answered 200 with the result
\* success, the second with the result skipped, 'Already processed', and the
\* email is dispatched exactly once.
C1_SequentialIdempotency ==
    \A r \in Requests, q \in Requests :
        (Redelivery(r, q) /\ Done(r) /\ Done(q) /\ r \in req[q].after /\ faults = 0) =>
            LET item == req[r].lineItems[1]
            IN  /\ req[r].response.status = 200
                /\ req[q].response.status = 200
                /\ req[r].response.body.success
                /\ req[q].response.body.success
                /\ Len(req[r].response.body.results) = 1
                /\ req[r].response.body.results[1].productId = item.productId
                /\ req[r].response.body.results[1].status = "success"
                /\ req[q].response.body.results = <<AlreadyProcessedResult(item)>>
                /\ req[r].calls.dispatch + req[q].calls.dispatch = 1

\* both deliveries are answered, the second having started after the first
C1_Witness ==
    \E r \in Requests, q \in Requests :
        /\ Redelivery(r, q) /\ Done(r) /\ Done(q) /\ r \in req[q].after /\ faults = 0
        /\ req[q].response.body.results[1].status = "skipped"

\* r reported the dispatch of the only item of its order
ReportsSuccess(r) ==
    /\ Done(r)
    /\ req[r].response.status = 200
    /\ req[r].response.body.success
    /\ Len(req[r].response.body.results) = 1
    /\ req[r].response.body.results[1].status = "success"

\* C2: the idempotency check is made before the upstream awaits and the key
\* is written only after a successful dispatch, so two concurrent requests
\* for the same triple can both pass the check: a request still awaiting has
\* written nothing, and whenever two requests both report success for the
\* same triple each had passed its check before the other was answered, each
\* dispatched the email, and the cache holds the key once.
C2_ConcurrentDoubleDispatch ==
    \A r \in Requests, q \in Requests :
        Redelivery(r, q) =>
            /\ (req[r].pc \in {"call", "sleep"} /\ req[q].pc \in {"idle", "call", "sleep"})
                   => ~isAlreadyProcessed(processedOrders, KeyOf(req[r].input))
            /\ (ReportsSuccess(r) /\ ReportsSuccess(q)) =>
                   /\ r \notin req[q].after
                   /\ q \notin req[r].after
                   /\ req[r].calls.dispatch >= 1
                   /\ req[q].calls.dispatch >= 1
                   /\ processedOrders = <<KeyOf(req[r].input)>>

\* the same triple was dispatched twice and both requests report success
C2_Witness ==
    \E r \in Requests, q \in Requests :
        /\ Redelivery(r, q)
        /\ ReportsSuccess(r) /\ ReportsSuccess(q)
        /\ req[r].calls.dispatch + req[q].calls.dispatch = 2
        /\ faults = 0

\* the results an item gets when none of its own upstream calls fails
ItemOutcomes(item) ==
    LET productResponse == Catalog(item.productId)
        workshop == isWorkshopProduct(productResponse.product)
        guidelines == resolveGuidelines(productResponse)
    IN  IF ~workshop.ok THEN {ErrorResult(item, workshop.message)}
        ELSE IF ~workshop.value THEN {NotWorkshopResult(item)}
        ELSE IF ~guidelines.ok THEN {ErrorResult(item, guidelines.message)}
        ELSE {SuccessResult(item, Or(guidelines.value.name, item.name)),
              AlreadyProcessedResult(item)}

\* the results an item gets when one of its upstream calls throws
ItemFailures(item) == {ErrorResult(item, e.message) : e \in UpstreamErrors}

\* the items of s whose result is not the one they get on their own
Deviating(s) ==
    {i \in 1..Len(s.results) : s.results[i] \notin ItemOutcomes(s.lineItems[i])}

\* C3: an exception raised while processing line item i is caught for that
\* item only and never aborts the batch: the request that passed validation
\* is answered 200 with one result per item in order, item i gets
\* {status 'error', error: the message}, every other item the result it gets
\* on its own, so no more items deviate than upstream calls have failed.
C3_PerItemIsolation ==
    \A r \in Requests :
        LET s == req[r]
        IN  /\ (s.pc \in {"call", "sleep"} => s.response = NoResponse)
            /\ (s.idx > 0 /\ s.pc # "idle") =>
                   /\ \A i \in 1..Len(s.results) :
                          s.results[i] \in ItemOutcomes(s.lineItems[i])
                                           \cup ItemFailures(s.lineItems[i])
                   /\ Cardinality(Deviating(s)) <= faults
                   /\ Done(r) =>
                          /\ s.response.status = 200
                          /\ s.response.body.success
                          /\ s.response.body.results = s.results
                          /\ Len(s.results) = Len(s.lineItems)

\* an order of two items is answered: the first item failed, the second was
\* dispatched
C3_Witness ==
    /\ Done("r1")
    /\ Len(req["r1"].lineItems) = 2
    /\ req["r1"].response.status = 200
    /\ req["r1"].response.body.results[1] \in ItemFailures(req["r1"].lineItems[1])
    /\ req["r1"].response.body.results[2].status = "success"

\* the body of the request as the handler parses it
Parsed(in) ==
    IF in.body.t = "string" THEN JSONparse(in.body.s) ELSE [ok |-> TRUE, value |-> in.body]

\* the request has a body and the body is JSON
JsonParseable(in) == in.body # Undefined /\ Parsed(in).ok

\* the signature check of the handler on the request
SignatureAccepted(in) ==
    verifyWebhookSignature(Codes(RawBody(in.body)), in.signature, in.timestamp, env.secret)

\* C4: every response is 200 except 405 for a method other than POST, 400
\* for a body that is not parseable JSON (a text JSON.parse rejects, or no
\* body at all) and 401 for a failed signature check; a missing configuration
\* and a validation failure are answered 200 with success false.
C4_StatusCodes ==
    \A r \in Requests :
        Done(r) =>
            LET in == req[r].input
                st == req[r].response.status
            IN  /\ st \in {200, 400, 401, 405}
                /\ (st = 405 => in.method # "POST")
                /\ (st = 401 => ~SignatureAccepted(in))
                /\ (st = 400 => ~JsonParseable(in))
                /\ (in.method = "POST" /\ ~validateEnvironment(env).ok) =>
                       (st = 200 /\ ~req[r].response.body.success)
                /\ ( /\ in.method = "POST" /\ validateEnvironment(env).ok
                     /\ SignatureAccepted(in) /\ JsonParseable(in)
                     /\ ~validateWebhookPayload(Parsed(in).value).ok ) =>
                       (st = 200 /\ ~req[r].response.body.success)

\* the hex HMAC-SHA256 of timestamp:rawBody under the configured secret
ExpectedSignature(in) ==
    HmacHex(env.secret, in.timestamp \o <<58>> \o Codes(RawBody(in.body)))

\* C5: with the required environment variables configured, a POST whose
\* signature header or timestamp header is missing, or for which no secret is
\* configured, or whose signature is not the hex HMAC-SHA256 of
\* timestamp:rawBody, is answered 401 {error: 'Invalid signature'}.
C5_InvalidSignature401 ==
    \A r \in Requests :
        LET in == req[r].input
        IN  ( /\ Done(r) /\ in.method = "POST" /\ validateEnvironment(env).ok
              /\ ( \/ Falsy(in.signature) \/ Falsy(in.timestamp) \/ Falsy(env.secret)
                   \/ in.signature # ExpectedSignature(in) ) )
            => req[r].response = [status |-> 401, body |-> [error |-> "Invalid signature"]]

\* the response of s reports a failure of the whole request
Failed(s) ==
    s.pc = "done" /\ (s.response.status # 200 \/ ~s.response.body.success)

\* C6: a failure of the whole request (405, 401, 400, or 200 with success
\* false) is decided before any line item is touched: the step that answers
\* it starts from the arrival of the request, has made no upstream call,
\* holds no item result and leaves the idempotency cache unchanged.
C6_FailureBeforeItems ==
    [][\A r \in Requests :
          (Failed(req'[r]) /\ req'[r] # req[r]) =>
              /\ req[r].pc = "idle"
              /\ req'[r].calls = ZeroCalls
              /\ req'[r].results = <<>>
              /\ req'[r].idx = 0
              /\ processedOrders' = processedOrders]_vars

\* a request fails as a whole while the cache holds a key
C6_Witness ==
    /\ Failed(req["r1"])
    /\ processedOrders # <<>>
    /\ req["r1"].input.method = "POST"

\* every character of s is a hex digit
AllHex(s) == \A i \in 1..Len(s) : Unhex(s[i]) # -1

\* the receiver holds the sender's key and got a timestamp
VKeysAgree == vf.secret = vf.signKey /\ ~Falsy(vf.timestamp)

\* C7 (as stated): a signature made by createWebhookSignature verifies, and
\* every single-bit mutation of that signature string is rejected.
C7_SignVerifyRoundTrip ==
    (vf.pc = "verified" /\ VKeysAgree) =>
        /\ (vf.tamper = "none" => vf.result = TRUE)
        /\ (vf.tamper = "bit" => vf.result = FALSE)

\* C8 (as stated): verification answers false whenever signature, timestamp
\* or secret is absent or empty, and whenever the signature is malformed hex:
\* a non-hex character in it, an odd length, or a length other than that of
\* the expected digest.
C8_MalformedSignatureRejected ==
    vf.pc = "verified" =>
        ( ( \/ Falsy(vf.signature) \/ Falsy(vf.timestamp) \/ Falsy(vf.secret)
            \/ ~AllHex(vf.signature)
            \/ Len(vf.signature) % 2 = 1
            \/ Len(vf.signature) # 2 * DigestBytes )
          => vf.result = FALSE )

\* the request passed the method, configuration and signature checks with the
\* very HMAC of its body, and its body is a JSON object
SignedOrder(r) ==
    LET in == req[r].input
    IN  /\ Done(r) /\ in.method = "POST" /\ validateEnvironment(env).ok
        /\ ~Falsy(env.secret) /\ ~Falsy(in.timestamp)
        /\ Parsed(in).ok /\ Parsed(in).value.t = "object"
        /\ in.signature = ExpectedSignature(in)

\* customer.email || customerInfo.email of the order
EmailOf(order) == Or(order.customerEmail, order.customerInfoEmail)

\* C9: a correctly signed POST whose payload yields no customer email
\* (neither customer.email nor customerInfo.email), or an email without '@',
\* is answered 200 with success false and the error
\* 'Invalid or missing customer email'.
C9_MissingEmail ==
    \A r \in Requests :
        LET email == EmailOf(Parsed(req[r].input).value.order)
        IN  ( /\ Done(r) /\ Parsed(req[r].input).ok
              /\ Parsed(req[r].input).value.t = "object"
              /\ \/ ~Truthy(email)
                 \/ email.t = "string" /\ ~Includes(email.s, "@")
              /\ SignedOrder(r) )
            => req[r].response =
                   [status |-> 200,
                    body |-> [success |-> FALSE, error |-> "Invalid or missing customer email"]]

\* an order whose email has no '@' is answered
C9_Witness ==
    /\ SignedOrder("r1")
    /\ EmailOf(Parsed(req["r1"].input).value.order) = Str("nobody")
    /\ req["r1"].response.status = 200

\* C10: a correctly signed POST with a valid customer email whose items
\* resolve to an empty list is answered 200 with success false and the error
\* exactly 'No items in order'.
C10_NoItems ==
    \A r \in Requests :
        LET order == Parsed(req[r].input).value.order
            email == EmailOf(order)
            items == Or(Or(order.lineItems, order.purchasedItems), Arr(<<>>))
        IN  ( /\ Done(r) /\ Parsed(req[r].input).ok
              /\ Parsed(req[r].input).value.t = "object"
              /\ email.t = "string" /\ Includes(email.s, "@")
              /\ items = Arr(<<>>)
              /\ SignedOrder(r) )
            => req[r].response =
                   [status |-> 200,
                    body |-> [success |-> FALSE, error |-> "No items in order"]]

(***************************************************************************)
(* Properties of withBackoff, observed on orders of one item, where the    *)
(* calls counted for an operation are those of its one withBackoff call.   *)
(***************************************************************************)
\* the operation awaited by r returns a value in this step
Returns(r) ==
    /\ req[r].pc = "call"
    /\ faults' = faults
    /\ req'[r] # req[r]

\* the operation awaited by r throws in this step
Throws(r) ==
    /\ req[r].pc = "call"
    /\ faults' = faults + 1
    /\ req'[r] # req[r]

\* C13: an operation that fails k <= maxRetries times with retryable errors
\* and then succeeds has been invoked exactly k + 1 times when withBackoff
\* returns its value, with exactly k sleeps, one after each failed attempt
\* and before the next.
C13_RetryThenSuccess ==
    /\ [](\A r \in Requests :
            LET s == req[r]
            IN  (Len(s.lineItems) = 1 /\ s.pc \in {"call", "sleep"}) =>
                    /\ s.failed <= maxRetries
                    /\ s.slept = s.failed
                    /\ s.calls[s.op] = IF s.pc = "call" THEN s.failed + 1 ELSE s.failed
                    /\ s.failed > 0 => defaultShouldRetry(s.lastError))
    /\ [][\A r \in Requests :
            LET s == req[r]
                t == req'[r]
            IN  (Returns(r) /\ Len(s.lineItems) = 1) =>
                    /\ s.calls[s.op] = s.failed + 1
                    /\ s.slept = s.failed
                    /\ t.calls[s.op] = s.calls[s.op]
                    /\ s.op = "dispatch" =>
                           t.results = <<SuccessResult(CurrentItem(s), s.workshopName)>>
                    /\ s.op = "guidelines" => (t.pc = "call" /\ t.op = "dispatch")
                    /\ s.op = "product" =>
                           \/ t.pc = "call" /\ t.op = "guidelines"
                           \/ t.results \in {<<x>> : x \in ItemOutcomes(CurrentItem(s))}]_vars

\* getProduct failed twice with 503 and then answered
C13_Witness ==
    /\ Done("r1")
    /\ Len(req["r1"].lineItems) = 1
    /\ req["r1"].calls.product = 3
    /\ req["r1"].results = <<NotWorkshopResult(req["r1"].lineItems[1])>>
    /\ req["r1"].failed = 2
    /\ req["r1"].slept = 2
    /\ req["r1"].lastError = HttpError(503)

\* C14: an operation whose first failure is non-retryable (HTTP 400 under the
\* default classifier) is invoked exactly once: withBackoff raises that same
\* error at once, without sleeping.
C14_NonRetryableOnce ==
    [][\A r \in Requests :
          LET s == req[r]
              t == req'[r]
          IN  (Throws(r) /\ s.failed = 0 /\ Len(s.lineItems) = 1
               /\ t.lastError = HttpError(400)) =>
                  /\ t.pc = "done"
                  /\ t.slept = 0
                  /\ s.calls[s.op] = 1
                  /\ t.calls = s.calls
                  /\ t.results = <<ErrorResult(CurrentItem(s), HttpError(400).message)>>]_vars

\* a first attempt failed with 400 and the item was given up
C14_Witness ==
    /\ Done("r1")
    /\ Len(req["r1"].lineItems) = 1
    /\ req["r1"].failed = 1
    /\ req["r1"].lastError = HttpError(400)
    /\ req["r1"].slept = 0
    /\ req["r1"].results[1].status = "error"

(***************************************************************************)
(* Properties of the processing of one line item.                          *)
(***************************************************************************)
\* the idempotency key of item i of request r
ItemKey(r, i) ==
    IdempotencyKey(req[r].orderId, req[r].customerEmail, req[r].lineItems[i].productId)

\* the product of the catalog that is no workshop: neither a service nor in
\* the workshop category
NotAWorkshop(item) == item.productId = "p2"

\* C15: for a line item whose fetched product is not a workshop the handler
\* appends {productId, status 'skipped', reason 'Not a workshop product'},
\* makes no guideline-resolution call and no dispatch call for it and writes
\* no idempotency record.
C15_NonWorkshopSkipped ==
    /\ [](\A r \in Requests : \A i \in 1..Len(req[r].results) :
            NotAWorkshop(req[r].lineItems[i]) =>
                /\ req[r].results[i] \in {NotWorkshopResult(req[r].lineItems[i])}
                                         \cup ItemFailures(req[r].lineItems[i])
                /\ ~isAlreadyProcessed(processedOrders, ItemKey(r, i)))
    /\ [](\A r \in Requests :
            (req[r].pc \in {"call", "sleep"} /\ NotAWorkshop(CurrentItem(req[r])))
                => req[r].op = "product")
    /\ [][\A r \in Requests :
            LET s == req[r]
                t == req'[r]
            IN  (Returns(r) /\ s.op = "product" /\ NotAWorkshop(CurrentItem(s))) =>
                    /\ Len(t.results) >= s.idx
                    /\ t.results[s.idx] = NotWorkshopResult(CurrentItem(s))
                    /\ t.calls.guidelines = s.calls.guidelines
                    /\ t.calls.dispatch = s.calls.dispatch
                    /\ processedOrders' = processedOrders]_vars

\* an order of a mug and a workshop: the mug is skipped, the workshop alone
\* is resolved, dispatched and recorded
C15_Witness ==
    /\ Done("r1")
    /\ req["r1"].lineItems = <<Item("p2"), Item("p1")>>
    /\ req["r1"].results[1] = NotWorkshopResult(Item("p2"))
    /\ req["r1"].results[2].status = "success"
    /\ req["r1"].calls.guidelines = 1
    /\ req["r1"].calls.dispatch = 1
    /\ processedOrders = <<ItemKey("r1", 2)>>

\* the name the guidelines of the item's product resolve with
GuidelinesName(item) == resolveGuidelines(Catalog(item.productId)).value.name

\* C16: for a workshop item whose guidelines resolve with a name N and whose
\* dispatch succeeds, the dispatch call holds workshopData.name = N and the
\* result is {productId, status 'success', emailSent true, workshopName N};
\* the name in the result is always the name that was dispatched.
C16_WorkshopName ==
    /\ [](\A r \in Requests :
            LET s == req[r]
            IN  /\ (s.pc \in {"call", "sleep"} /\ s.op = "dispatch"
                    /\ Truthy(GuidelinesName(CurrentItem(s))))
                       => s.workshopName = GuidelinesName(CurrentItem(s))
                /\ \A i \in 1..Len(s.results) :
                       (s.results[i].status = "success"
                        /\ Truthy(GuidelinesName(s.lineItems[i])))
                       => s.results[i] =
                              [productId |-> s.lineItems[i].productId, status |-> "success",
                               emailSent |-> TRUE,
                               workshopName |-> GuidelinesName(s.lineItems[i])])
    /\ [][\A r \in Requests :
            LET s == req[r]
                t == req'[r]
            IN  (Returns(r) /\ s.op = "dispatch") =>
                    /\ t.results[s.idx].status = "success"
                    /\ t.results[s.idx].workshopName = s.workshopName]_vars

\* 'Pottery 101' was dispatched and is reported
C16_Witness ==
    /\ Done("r1")
    /\ req["r1"].lineItems = <<Item("p1")>>
    /\ req["r1"].response.body.results =
           <<[productId |-> "p1", status |-> "success", emailSent |-> TRUE,
              workshopName |-> Str("Pottery 101")]>>
    /\ req["r1"].calls.dispatch = 1

(***************************************************************************)
(* Properties of one request.                                              *)
(***************************************************************************)
\* the messages of the errors validateEnvironment and validateWebhookPayload
\* throw on purpose
ValidationMessages ==
    {"Invalid payload format", "Invalid or missing customer email", "No items in order"}
    \cup {validateEnvironment(e).message : e \in {x \in Envs : ~validateEnvironment(x).ok}}

\* the request reaches the validation of its payload
ReachesValidation(r) ==
    LET in == req[r].input
    IN  /\ Done(r) /\ in.method = "POST" /\ validateEnvironment(env).ok
        /\ JsonParseable(in) /\ ~(env.debug /\ Parsed(in).value = Null)
        /\ SignatureAccepted(in)

\* C17: when the outer catch handles an exception that is not a payload or
\* configuration validation error, the error returned to the caller is
\* exactly 'Internal processing error', never the exception's own message.
C17_GenericError ==
    \A r \in Requests :
        LET thrown == validateWebhookPayload(Parsed(req[r].input).value)
        IN  (ReachesValidation(r) /\ ~thrown.ok /\ thrown.message \notin ValidationMessages) =>
                /\ req[r].response =
                       [status |-> 200,
                        body |-> [success |-> FALSE, error |-> "Internal processing error"]]
                /\ req[r].response.body.error # thrown.message

\* an order whose customer email is a number makes includes() throw a
\* TypeError, answered with the generic error
C17_Witness ==
    /\ ReachesValidation("r1")
    /\ validateWebhookPayload(Parsed(req["r1"].input).value).message
           = "customerEmail.includes is not a function"
    /\ req["r1"].response.body.error = "Internal processing error"

\* C18: a payload in which the order id is absent (neither orderId nor id)
\* fails validation: the request ends with success false, no line item is
\* processed and no idempotency key is derived from an absent order id.
C18_OrderIdRequired ==
    \A r \in Requests :
        LET order == Parsed(req[r].input).value.order
        IN  ( /\ Done(r) /\ Parsed(req[r].input).ok
              /\ Parsed(req[r].input).value.t = "object"
              /\ ~Truthy(Or(order.orderId, order.id))
              /\ SignedOrder(r) ) =>
                /\ Failed(req[r])
                /\ req[r].calls = ZeroCalls
                /\ req[r].results = <<>>
                /\ processedOrders = <<>>

\* C19: within one request the line items are processed strictly in
\* sequence: while an upstream call for item i is awaited the results of
\* exactly the items before i have been appended, and a success response
\* carries exactly one result per line item, in the order of the line items.
C19_SequentialItems ==
    \A r \in Requests :
        LET s == req[r]
        IN  s.idx > 0 =>
                /\ s.pc \in {"call", "sleep"} =>
                       (s.idx <= Len(s.lineItems) /\ Len(s.results) = s.idx - 1)
                /\ Len(s.results) <= Len(s.lineItems)
                /\ \A i \in 1..Len(s.results) :
                       s.results[i].productId = s.lineItems[i].productId
                /\ (Done(r) /\ s.response.body.success) =>
                       /\ s.response.body.results = s.results
                       /\ Len(s.results) = Len(s.lineItems)

\* a workshop and a mug, answered in that order
C19_Witness ==
    /\ Done("r1")
    /\ req["r1"].lineItems = <<Item("p1"), Item("p2")>>
    /\ req["r1"].response.body.results[1].status = "success"
    /\ req["r1"].response.body.results[2] = NotWorkshopResult(Item("p2"))

\* C20: for every request and every outcome of the upstream calls the
\* handler eventually sends a response, and exactly one: a request that has
\* entered the handler is answered, it has a response exactly when it is
\* over, and a response once sent does not change.
C20_AlwaysResponds ==
    /\ \A r \in Requests : (req[r].pc # "idle") ~> Done(r)
    /\ [](\A r \in Requests :
            /\ req[r].pc \in {"idle", "call", "sleep", "done"}
            /\ Done(r) <=> req[r].response # NoResponse)
    /\ [][\A r \in Requests :
            req[r].response # NoResponse => req'[r].response = req[r].response]_vars

\* an order of several items was answered after upstream failures
C20_Witness ==
    /\ Done("r1")
    /\ Len(req["r1"].lineItems) = MaxItems
    /\ faults = MaxFaults
    /\ req["r1"].response.status = 200

\* C21: a POST whose signature header is the hex HMAC-SHA256 of the
\* JSON-serialised body under the webhook secret, sent as the deployment
\* tests send it (no timestamp header, body not prefixed by a timestamp), is
\* accepted: HTTP 200 with success true.
C21_DeploymentTestAccepted ==
    \A r \in Requests :
        (Done(r) /\ EnvReady /\ req[r].input = DeploymentTestRequest) =>
            /\ req[r].response.status = 200
            /\ req[r].response.body.success

\* a list of at least one item
NonEmptyList(v) == v.t = "array" /\ Len(v.a) > 0

\* C22: validation accepts the order whenever at least one of lineItems and
\* purchasedItems holds a non-empty list, and fails only when neither does;
\* with lineItems = [] and a non-empty purchasedItems the order is accepted
\* and its purchasedItems are the items processed.
C22_EitherItemPath ==
    \A r \in Requests :
        LET order == Parsed(req[r].input).value.order
            email == EmailOf(order)
        IN  ( /\ Done(r) /\ Parsed(req[r].input).ok
              /\ Parsed(req[r].input).value.t = "object"
              /\ email.t = "string" /\ Includes(email.s, "@")
              /\ SignedOrder(r) ) =>
                /\ (~NonEmptyList(order.lineItems) /\ ~NonEmptyList(order.purchasedItems))
                       => Failed(req[r])
                /\ NonEmptyList(order.lineItems) =>
                       (~Failed(req[r]) /\ req[r].lineItems = order.lineItems.a)
                /\ (~NonEmptyList(order.lineItems) /\ NonEmptyList(order.purchasedItems)) =>
                       (~Failed(req[r]) /\ req[r].lineItems = order.purchasedItems.a)

\* the key is held by the cache
Recorded(cache, key) == \E j \in 1..Len(cache) : cache[j] = key

\* some request holds the success result of the item with this key
Dispatched(key) ==
    \E r \in Requests : \E i \in 1..Len(req[r].results) :
        /\ req[r].results[i].status = "success"
        /\ ItemKey(r, i) = key
        /\ req[r].calls.dispatch >= 1

\* q was delivered the order of one item that r had been answered for
DeliveredAgain(r, q) ==
    /\ r # q
    /\ Done(r)
    /\ r \in req[q].after
    /\ req[q].input = req[r].input
    /\ Len(req[r].results) = 1
    /\ Len(req[q].lineItems) = 1

\* C23: each key in the idempotency cache belongs to an (order id, customer
\* email, product id) triple for which a dispatch call returned successfully:
\* an item that ends as error or skipped leaves the cache unchanged, so a
\* redelivery of that item is processed again.
C23_RecordedOnlyAfterDispatch ==
    /\ \A j \in 1..Len(processedOrders) : Dispatched(processedOrders[j])
    /\ \A r \in Requests, q \in Requests :
           (DeliveredAgain(r, q) /\ req[r].results[1].status \in {"error", "skipped"}) =>
               /\ ~Recorded(processedOrders, ItemKey(r, 1)) \/ Dispatched(ItemKey(r, 1))
               /\ req[q].calls.product >= 1
               /\ req[q].results # <<>> =>
                      req[q].results[1] # AlreadyProcessedResult(req[q].lineItems[1])

\* an item ended as error; its redelivery was processed again and dispatched
C23_Witness ==
    \E r \in Requests, q \in Requests :
        /\ DeliveredAgain(r, q) /\ Done(q)
        /\ req[r].results[1].status = "error"
        /\ req[r].calls.guidelines >= 1
        /\ req[q].results[1].status = "success"
        /\ processedOrders = <<ItemKey(q, 1)>>

\* C24: for an item whose idempotency key is already recorded the handler
\* appends {productId, status 'skipped', reason 'Already processed'} and makes
\* no upstream call at all for that item: the loop passes over it without an
\* await, and only an item that is not recorded has its product fetched.
C24_RecordedItemSkipped ==
    [][\A r \in Requests :
          LET s == req[r]
              t == req'[r]
              key(i) == IdempotencyKey(t.orderId, t.customerEmail, t.lineItems[i].productId)
              awaited(i) == s.pc = "call" /\ i = s.idx
          IN  /\ \A i \in (Len(s.results) + 1)..Len(t.results) :
                     /\ ~awaited(i) =>
                            /\ Recorded(processedOrders', key(i))
                            /\ t.results[i] = AlreadyProcessedResult(t.lineItems[i])
                     /\ t.results[i] = AlreadyProcessedResult(t.lineItems[i]) => ~awaited(i)
              /\ (t.pc = "call" /\ (s.pc = "idle" \/ t.idx # s.idx)) =>
                     /\ ~Recorded(processedOrders', key(t.idx))
                     /\ t.op = "product"
              /\ t.pc # "idle" =>
                     \A op \in DOMAIN t.calls :
                         t.calls[op] # s.calls[op] =>
                             /\ t.calls[op] = s.calls[op] + 1
                             /\ t.pc = "call" /\ t.op = op]_vars

\* the second item of an order was passed over as already processed while the
\* first was fetched
C24_Witness ==
    \E r \in Requests :
        /\ Done(r)
        /\ Len(req[r].results) = 2
        /\ req[r].results[1].status = "skipped"
        /\ req[r].results[1].reason = "Not a workshop product"
        /\ req[r].results[2] = AlreadyProcessedResult(req[r].lineItems[2])
        /\ req[r].calls = [ZeroCalls EXCEPT !.product = 1]

\* C28: the whole-request checks run in a fixed order: method, required
\* environment, signature over the raw body, JSON parsing, payload
\* validation; the first that fails decides the response.  A POST with an
\* unparseable body is answered 401 when its signature fails and 400
\* {error: 'Invalid JSON payload'} only when its signature is valid.
C28_CheckOrder ==
    \A r \in Requests :
        Done(r) =>
            LET in == req[r].input
                res == req[r].response
                post == in.method = "POST"
                envOk == validateEnvironment(env).ok
                sigOk == SignatureAccepted(in)
                parseOk == Parsed(in).ok
            IN  /\ ~post => res.status = 405
                /\ (post /\ ~envOk) =>
                       res = [status |-> 200,
                              body |-> [success |-> FALSE,
                                        error |-> validateEnvironment(env).message]]
                /\ (post /\ envOk /\ ~sigOk) => res.status = 401
                /\ (post /\ envOk /\ sigOk /\ ~parseOk) =>
                       res = [status |-> 400, body |-> [error |-> "Invalid JSON payload"]]
                /\ res.status = 400 => (post /\ envOk /\ sigOk)
                /\ (post /\ envOk /\ res.status = 200 /\ ~res.body.success) =>
                       (sigOk /\ parseOk)

\* a POST whose body is no JSON and whose signature fails was answered 401
C28_Witness ==
    /\ Done("r1")
    /\ req["r1"].input.method = "POST"
    /\ validateEnvironment(env).ok
    /\ ~Parsed(req["r1"].input).ok
    /\ ~SignatureAccepted(req["r1"].input)
    /\ req["r1"].response.status = 401

\* the guidelines of the only item of r's order were asked for and either the
\* resolution failed or what it resolved holds no guidelines content
NoGuidelinesResolved(r) ==
    LET s == req[r]
        guidelines == resolveGuidelines(Catalog(s.lineItems[1].productId))
    IN  /\ Done(r)
        /\ Len(s.lineItems) = 1
        /\ s.calls.guidelines >= 1
        /\ \/ s.calls.dispatch = 0
           \/ guidelines.ok /\ ~Truthy(guidelines.value.guidelinesHtml)

\* C29: for a workshop line item whose guideline resolution fails entirely
\* (yields no content) the handler appends {productId, status 'error', error
\* 'No guidelines found for workshop'} and goes on to the end of the order.
C29_NoGuidelinesResult ==
    \A r \in Requests :
        NoGuidelinesResolved(r) =>
            /\ req[r].results =
                   <<ErrorResult(req[r].lineItems[1], "No guidelines found for workshop")>>
            /\ req[r].response.status = 200
            /\ req[r].response.body.success

\* the product record carries the service type id or the workshop category id
IsWorkshopRecord(product) ==
    /\ product.t = "object"
    /\ product.fieldData.t = "object"
    /\ \/ product.fieldData.type = Str(SERVICE_TYPE)
       \/ /\ product.fieldData.category.t = "array"
          /\ \E i \in 1..Len(product.fieldData.category.a) :
                 product.fieldData.category.a[i] = WORKSHOP_CATEGORY

\* C30: isWorkshopProduct returns true exactly when the product's type id is
\* the service type id or its category list contains the workshop category
\* id, and every fetched product response that fails this check, including
\* one with no product record or no field data, leads to a skipped result
\* and never to an error result.
C30_WorkshopCheck ==
    \A r \in Requests :
        LET s == req[r]
            product == Catalog(s.lineItems[1].productId).product
        IN  (Done(r) /\ Len(s.lineItems) = 1 /\ s.calls.product >= 1 /\ faults = 0) =>
                /\ IsWorkshopRecord(product) => s.results[1].status = "success"
                /\ ~IsWorkshopRecord(product) =>
                       s.results = <<NotWorkshopResult(s.lineItems[1])>>

\* a customer email validation accepts
ValidEmail(v) == v.t = "string" /\ Includes(v.s, "@")

\* C31: the payload normalizer tries its accessors in a fixed order: the
\* object nested under payload when present, otherwise the flat object;
\* customer.email before customerInfo.email; lineItems before
\* purchasedItems; orderId before id.  When both alternatives of a pair hold
\* valid values the first is the one used, and the second is used when the
\* first is absent.
C31_AccessorPriority ==
    \A r \in Requests :
        LET body == Parsed(req[r].input).value
            order == body.order
            s == req[r]
        IN  ( /\ SignedOrder(r)
              /\ ValidEmail(EmailOf(order))
              /\ NonEmptyList(order.lineItems) \/ order.lineItems = Undefined
              /\ NonEmptyList(order.purchasedItems) \/ NonEmptyList(order.lineItems) ) =>
                /\ s.customerEmail = IF ValidEmail(order.customerEmail)
                                     THEN order.customerEmail.s
                                     ELSE order.customerInfoEmail.s
                /\ s.lineItems = IF NonEmptyList(order.lineItems)
                                 THEN order.lineItems.a
                                 ELSE order.purchasedItems.a
                /\ s.orderId = IF order.orderId.t = "string" /\ order.orderId.s # ""
                               THEN order.orderId
                               ELSE order.id

\* an envelope whose nested order holds both alternatives of every pair was
\* read from the nested order and the first accessor of each pair
C31_Witness ==
    /\ SignedOrder("r1")
    /\ HasFlat(req["r1"].input.body)
    /\ req["r1"].input.body.order = BothOrder
    /\ req["r1"].orderId = Str("o1")
    /\ req["r1"].customerEmail = "a@b.com"
    /\ req["r1"].lineItems = <<Item("p1")>>

\* the request passes the method, environment, signature, parsing and
\* payload validation checks
PassesChecks(r) ==
    LET in == req[r].input
    IN  /\ in.method = "POST"
        /\ validateEnvironment(env).ok
        /\ SignatureAccepted(in)
        /\ Parsed(in).ok
        /\ validateWebhookPayload(Parsed(in).value).ok

\* C32: whenever a request passes method, environment, signature, parsing
\* and payload validation, the success flag of its response is true whatever
\* the outcomes of its items are, also when every item ended in error.
C32_SuccessWhateverItems ==
    \A r \in Requests :
        (Done(r) /\ PassesChecks(r)) =>
            /\ req[r].response.status = 200
            /\ req[r].response.body.success

\* the handler run on the request of r with the other DEBUG_LOGGING setting,
\* from its entry to its first await or to its response
DebugTwin(r) ==
    Enter([IdleSlot EXCEPT !.input = req[r].input, !.after = req[r].after],
          [env EXCEPT !.debug = ~env.debug], <<>>)

\* C34: the status and the body of the response do not depend on
\* DEBUG_LOGGING: for every request, also a correctly signed body that
\* parses to null or to a non-object, a run with debug logging on and a run
\* with it off give the same status, success flag and error, and make the
\* same upstream calls.
C34_DebugIndependent ==
    \A r \in Requests :
        (req[r].pc # "idle" /\ processedOrders = <<>> /\ req[r].input.body # Undefined) =>
            /\ (Done(r) /\ req[r].calls = ZeroCalls) =>
                   /\ DebugTwin(r).pc = "done"
                   /\ DebugTwin(r).response = req[r].response
            /\ req[r].calls # ZeroCalls => DebugTwin(r).pc = "call"

\* the (orderId, customerEmail, productId) of item i of r
Triple(r, i) == <<req[r].orderId, req[r].customerEmail, req[r].lineItems[i].productId>>

\* C35: the derivation of the idempotency key is injective on triples: two
\* different (orderId, customerEmail, productId) triples never give the same
\* pre-hash string, so an item is never skipped as 'Already processed'
\* because of a different triple.
C35_KeyInjective ==
    \A r \in Requests : \A i \in 1..Len(req[r].results) :
        /\ \A q \in Requests : \A j \in 1..Len(req[q].results) :
               Triple(r, i) # Triple(q, j) => ItemKey(r, i) # ItemKey(q, j)
        /\ req[r].results[i] = AlreadyProcessedResult(req[r].lineItems[i]) =>
               \E q \in Requests : \E j \in 1..Len(req[q].results) :
                   /\ req[q].results[j].status = "success"
                   /\ Triple(q, j) = Triple(r, i)

\* C36: within one request, when two line items carry the same productId and
\* the first is dispatched successfully, the second is skipped as 'Already
\* processed': at most one notification is dispatched per distinct productId
\* of an order.
C36_OncePerProduct ==
    \A r \in Requests :
        LET s == req[r]
        IN  \A i \in 1..Len(s.results) : \A j \in 1..Len(s.results) :
                ( /\ i < j
                  /\ s.lineItems[i].productId = s.lineItems[j].productId
                  /\ s.results[i].status = "success" ) =>
                    s.results[j] = AlreadyProcessedResult(s.lineItems[j])

\* an order naming the same workshop twice: dispatched once, skipped once
C36_Witness ==
    /\ Done("r1")
    /\ req["r1"].lineItems = <<Item("p1"), Item("p1")>>
    /\ req["r1"].results[1].status = "success"
    /\ req["r1"].results[2] = AlreadyProcessedResult(Item("p1"))
    /\ req["r1"].calls.dispatch = 1

\* C37: a POST that fails signature verification always receives the generic
\* 401 response and never one that discloses server configuration: no
\* unauthenticated request is answered with the message 'Missing required
\* environment variables: ...' that lists variable names.
C37_NoConfigurationDisclosed ==
    \A r \in Requests :
        (Done(r) /\ req[r].input.method = "POST" /\ ~SignatureAccepted(req[r].input)) =>
            /\ req[r].response = [status |-> 401, body |-> [error |-> "Invalid signature"]]
            /\ ~Includes(req[r].response.body.error, "Missing required environment variables")

C25_AttemptsBounded ==
    bk.pc # "off" =>
        /\ bk.invoked >= 1
        /\ bk.invoked <= bk.maxRetries + 1
        /\ bk.consulted <= bk.maxRetries
        /\ Len(bk.sleeps) <= bk.maxRetries
        /\ (bk.pc = "thrown" /\ defaultShouldRetry(bk.thrown)) =>
               /\ bk.invoked = bk.maxRetries + 1
               /\ bk.thrown = bk.lastError
               /\ bk.consulted = bk.maxRetries
               /\ Len(bk.sleeps) = bk.maxRetries

\* four attempts failed with retryable errors and the last error was raised
C25_Witness ==
    /\ bk.pc = "thrown"
    /\ bk.maxRetries = 3
    /\ bk.invoked = 4
    /\ bk.thrown.response = Num(503)
    /\ bk.consulted = 3
    /\ Len(bk.sleeps) = 3

RECURSIVE Sum(_)
Sum(seq) == IF seq = <<>> THEN 0 ELSE Head(seq) + Sum(Tail(seq))

\* C26: the sleep before retry attempt + 1 is
\* min(baseDelay * 2^attempt + jitter, maxDelay) with jitter in [0, 1000) ms:
\* every sleep is at most maxDelay and at least
\* min(baseDelay * 2^attempt, maxDelay), and an operation that fails twice
\* and then succeeds has slept in total at least baseDelay + 2 * baseDelay
\* when neither term exceeds maxDelay.
C26_DelayBounds ==
    /\ \A i \in 1..Len(bk.sleeps) :
           LET floor == bk.baseDelay * Pow2(i - 1)
           IN  /\ bk.sleeps[i] <= bk.maxDelay
               /\ bk.sleeps[i] >= Min(floor, bk.maxDelay)
               /\ bk.sleeps[i] < floor + 1000
    /\ (bk.pc = "returned" /\ Len(bk.sleeps) = 2 /\ 2 * bk.baseDelay <= bk.maxDelay) =>
           Sum(bk.sleeps) >= bk.baseDelay + 2 * bk.baseDelay

\* three failures under the default options: the third sleep is beyond
\* 4 * baseDelay and below maxDelay
C26_Witness ==
    /\ bk.pc = "returned"
    /\ bk.baseDelay = baseDelay /\ bk.maxDelay = maxDelay
    /\ bk.sleeps = <<1500, 2999, 4000>>

\* the error is one the claim calls transient
Transient(error) ==
    \/ error.response = Num(429)
    \/ error.response.t = "number" /\ error.response.n \in 500..599
    \/ error.code \in {Str("ECONNRESET"), Str("ETIMEDOUT")}

\* C27: the default retry classifier returns true exactly for an error with
\* HTTP status 429, an HTTP 5xx status, or network code ECONNRESET or
\* ETIMEDOUT, and false for every other error: before the last attempt
\* withBackoff sleeps after the former and raises the latter at once.
C27_DefaultClassifier ==
    /\ bk.pc = "sleeping" => Transient(bk.lastError)
    /\ (bk.pc = "thrown" /\ bk.invoked <= bk.maxRetries) => ~Transient(bk.lastError)

\* a 404 that carries no network code was raised at the first attempt
C27_Witness ==
    /\ bk.pc = "thrown"
    /\ bk.maxRetries = 3 /\ bk.invoked = 1
    /\ bk.lastError.response = Num(404)
    /\ bk.lastError.code = Undefined

(***************************************************************************)
(* Properties of the cache.                                                *)
(***************************************************************************)
\* C11: in every reachable state the idempotency cache holds at most
\* MAX_CACHE_SIZE entries, whatever sequence of recordings and lookups the
\* requests make.
C11_CacheBounded == Len(processedOrders) <= MAX_CACHE_SIZE

\* the cache is full and further keys have been recorded
C11_Witness ==
    /\ Len(processedOrders) = MAX_CACHE_SIZE
    /\ cs.n = MAX_CACHE_SIZE + MaxOverflow

\* the keys numbered from lo to hi, in that order
KeyRange(lo, hi) == [i \in 1..(hi - lo + 1) |-> CacheKey(lo + i - 1)]

\* the entry inserted last
Newest(cache) == cache[Len(cache)]

\* C12: eviction is FIFO and evicts one entry: after MAX_CACHE_SIZE + 1
\* distinct keys the cache holds MAX_CACHE_SIZE entries, all but the first
\* recorded; a recording that finds the cache full removes its oldest entry
\* and nothing else before inserting, a recording that does not removes
\* nothing; lookups leave the cache, and so its oldest entry, as it is.
C12_FifoEviction ==
    /\ []((cs.again = 0 /\ cs.looked = 0 /\ cs.n > MAX_CACHE_SIZE) =>
              processedOrders = KeyRange(cs.n - MAX_CACHE_SIZE + 1, cs.n))
    /\ [][ /\ cs'.looked # 0 => processedOrders' = processedOrders
           /\ (processedOrders' # processedOrders /\ Len(processedOrders) < MAX_CACHE_SIZE) =>
                  processedOrders' = Append(processedOrders, Newest(processedOrders'))
           /\ (processedOrders' # processedOrders /\ Len(processedOrders) >= MAX_CACHE_SIZE) =>
                  \/ processedOrders' = Tail(processedOrders)
                  \/ processedOrders' = Append(Tail(processedOrders), Newest(processedOrders')) ]_vars

\* MAX_CACHE_SIZE + 1 distinct keys were recorded: the first is absent, the
\* second is the oldest
C12_Witness ==
    /\ cs.n = MAX_CACHE_SIZE + 1
    /\ cs.again = 0
    /\ Len(processedOrders) = MAX_CACHE_SIZE
    /\ ~isAlreadyProcessed(processedOrders, CacheKey(1))
    /\ Head(processedOrders) = CacheKey(2)

\* the keys a cache holds
KeysOf(cache) == {cache[j] : j \in 1..Len(cache)}

\* C33: markAsProcessed removes an entry only when its insert adds a new key
\* that would otherwise exceed the bound: recording a key that is already
\* present never evicts another entry and never lowers the number of cached
\* keys.
C33_RerecordKeepsEntries ==
    [][\A i \in {1, cs.n} :
          ( /\ cs'.again = cs.again + 1
            /\ Recorded(processedOrders, CacheKey(i))
            /\ processedOrders' = markAsProcessed(processedOrders, CacheKey(i)) ) =>
              /\ Len(processedOrders') >= Len(processedOrders)
              /\ KeysOf(processedOrders) \subseteq KeysOf(processedOrders')]_vars

\* C39: de-duplication lasts only while the key stays in the cache: after a
\* key has been recorded and MAX_CACHE_SIZE further distinct keys have been
\* recorded in the same process, the first key has been evicted and a
\* redelivery of its triple is processed and dispatched again with status
\* success; before that the redelivery is skipped.
C39_RedeliveryAfterEviction ==
    /\ [][\A q \in Requests :
            (req[q].pc = "idle" /\ req'[q].pc # "idle" /\ FirstDelivered) =>
                /\ cs.n >= MAX_CACHE_SIZE =>
                       /\ ~Recorded(processedOrders, CacheKey(1))
                       /\ req'[q].pc = "call"
                /\ cs.n < MAX_CACHE_SIZE =>
                       req'[q].results = <<AlreadyProcessedResult(Item("p1"))>>]_vars
    /\ [](\A q \in Requests :
            (Done(q) /\ req[q].calls.product >= 1) =>
                /\ req[q].results = <<SuccessResult(Item("p1"), Str("Pottery 101"))>>
                /\ req[q].calls.dispatch = 1)

\* the order was dispatched, MAX_CACHE_SIZE other keys were recorded, and the
\* order delivered again was dispatched a second time
C39_Witness ==
    /\ cs.n >= MAX_CACHE_SIZE
    /\ \A r \in Requests :
           /\ Done(r)
           /\ req[r].results = <<SuccessResult(Item("p1"), Str("Pottery 101"))>>
           /\ req[r].calls.dispatch = 1
    /\ "r1" \in req["r2"].after
====
